---------------------------- MODULE Spec2Model ----------------------------
(***************************************************************************)
(* A model of the tutoring client's speech orchestration core:             *)
(*   - the Speech Output Engine (src/hooks/useSpeechSynthesis.ts): the     *)
(*     utterance queue, the pending completion callback, mute, and the     *)
(*     browser voice engine it submits units to;                           *)
(*   - the Session Orchestrator (src/App.tsx): the tutor state machine,    *)
(*     the lesson fetch, the chat exchange, the interview round advance    *)
(*     and the listening gate.                                             *)
(*                                                                         *)
(* Handlers are sequential code over many state cells, and a completion    *)
(* callback can re-enter speak() from inside processQueue(), so every      *)
(* handler is an operator from a state record to a state record; an        *)
(* action applies one handler to the current state (St), runs the effects  *)
(* of the render that follows (RunEffects) and installs the result.        *)
(*                                                                         *)
(* A handler reads the cells of the render that created it, not the        *)
(* current ones.  Those values are passed as a render record r             *)
(* (Render(s)): a handler the user triggers gets the render of the current *)
(* state, a continuation after an await or a speech callback gets the      *)
(* render that was current when it was created.  Writes go to the state    *)
(* record; a functional update (setX(prev => ...)) reads the state record. *)
(*                                                                         *)
(* Cells that no handler reads back and that only feed the presentation    *)
(* (diagram, clarification code, transition curtain, spoken caption,       *)
(* voices) are left out.                                                   *)
(***************************************************************************)
EXTENDS Integers, Sequences, FiniteSets, TLC

\* ------------------------------------------------------------------ bounds
MaxCalls == 2      \* speak() calls in one run of the hook alone (SpecSpeech)
MaxSegs == 2       \* segments in one speak() input of SpecSpeech
MaxStale == 1      \* end events of cancelled units still to be delivered
MaxAppCalls == 3   \* speak() calls in one run of the orchestrator
MaxPending == 1    \* provider calls in flight at once
MaxHistory == 5    \* conversation turns before the user stops chatting
MaxRounds == 2     \* rounds of an interview plan
MaxTaskCalls == 5  \* speak() calls in one run of a lesson of code tasks
MaxTaskHistory == 7 \* conversation turns in a lesson of code tasks
MaxFetches == 2     \* lesson fetches in flight at once when topics are switched
MaxRawSteps == 2    \* steps in one answer of the provider
MaxNow == 7         \* the last instant (half days) of a run of lesson completions
MaxProgressCalls == 4 \* speak() calls in a run of lesson completions

VARIABLES
    \* useSpeechSynthesis
    isMuted, isSpeaking, mouthShape, spokenText, utteranceQueue, onEndCallback,
    \* the browser voice engine (window.speechSynthesis)
    engineQueue, staleEnds, endOnCancel,
    \* App: session state
    appMode, tutorState, isLoading, currentSkillId, currentTopicId, topics,
    topics2, hasBadge, hasBadge2, lesson, currentStepIndex, conversationHistory, stateBeforeDoubt,
    chatError, lastFailedMessage, interviewSession, solution,
    incorrectAttempts, currentHint, userCode, whiteboardDisplayCode, error,
    \* App: the progress of the signed-in user, and the clock
    currentStreak, lastActivityDate, activityLog, badges, now, timezoneOffset,
    \* App: closures, provider calls in flight, timers
    nirRender, pending, timers,
    \* useSpeechRecognition and the effects' last dependencies
    isListening, isSpeechSupported, gateDeps, fetchDeps,
    \* history of the run
    calls, submitted, ended, failed, fired, cancelled, lastOp, lastControl, exchange

vars == <<isMuted, isSpeaking, mouthShape, spokenText, utteranceQueue,
          onEndCallback,
          engineQueue, staleEnds, endOnCancel,
          appMode, tutorState, isLoading, currentSkillId, currentTopicId, topics,
          topics2, hasBadge, hasBadge2, lesson, currentStepIndex, conversationHistory, stateBeforeDoubt,
          chatError, lastFailedMessage, interviewSession, solution,
          incorrectAttempts, currentHint, userCode, whiteboardDisplayCode, error,
          currentStreak, lastActivityDate, activityLog, badges, now, timezoneOffset,
          nirRender, pending, timers,
          isListening, isSpeechSupported, gateDeps, fetchDeps,
          calls, submitted, ended, failed, fired, cancelled, lastOp, lastControl,
          exchange>>

\* ------------------------------------------------------------- helpers
Range(f) == {f[i] : i \in DOMAIN f}

RemoveAt(seq, i) == SubSeq(seq, 1, i - 1) \o SubSeq(seq, i + 1, Len(seq))

RECURSIVE SelectNonBlank(_)

\* ------------------------------------------------------------------ data
\* The mouth shapes a word boundary chooses from; "X" is the closed shape.
MOUTH_SHAPES == {"A", "B", "C", "D", "E", "F", "G", "H"}

\* Segment texts: "" is falsy, " " is empty after trim, the others are spoken.
Texts == {"", " ", "a"}

IsBlank(t) == t \in {"", " "}

\* segments.filter(s => s.text && s.text.trim().length > 0)
SelectNonBlank(segs) ==
    IF segs = <<>> THEN <<>>
    ELSE IF IsBlank(Head(segs)) THEN SelectNonBlank(Tail(segs))
         ELSE <<Head(segs)>> \o SelectNonBlank(Tail(segs))

\* TutorState (src/types.ts).
TutorStates ==
    {"IDLE", "SELECTING_SKILL", "LOADING_LESSON", "EXPLAINING", "AWAITING_TASK",
     "AWAITING_CHOICE", "AWAITING_CONTINUE", "EVALUATING", "CHATTING",
     "CLARIFYING_DOUBT", "CORRECT", "INCORRECT", "COURSE_COMPLETED", "ERROR"}

\* Lesson steps.
StepExplanation(content) == [type |-> "EXPLANATION", text |-> content]

StepMultipleChoice(question, choices, correct, feedback) ==
    [type |-> "MULTIPLE_CHOICE", text |-> question, choices |-> choices,
     correctChoiceIndex |-> correct, feedback |-> feedback]

StepCodeTask(mission) ==
    [type |-> "CODE_TASK", text |-> mission, startingCode |-> "// start here"]

NoStep == [type |-> "none"]

NoLesson == [none |-> TRUE]                       \* lesson = null

NoSession == [none |-> TRUE]                      \* interviewSession = null

NoMessage == [none |-> TRUE]                      \* lastFailedMessage = null

NoHint == [none |-> TRUE]                         \* currentHint = null

NoDate == 0                                       \* lastActivityDate absent

\* Instants are counted in half days from a UTC midnight; the run starts at
\* noon (UTC) of day 1.
FirstInstant == 3

\* Hint (src/types.ts): the three tiers.
Hint(conceptual, direct, sol) ==
    [conceptual |-> conceptual, direct |-> direct, solution |-> sol]

\* Chat messages.
UserMsg(text, isSystem) == [sender |-> "user", text |-> text, isSystem |-> isSystem]

AiMsg(text) == [sender |-> "ai", text |-> text, isSystem |-> FALSE]

\* Completion callbacks handed to speak().
CbNone == [kind |-> "none"]                      \* onEnd undefined
CbMark == [kind |-> "mark"]                      \* a callback that changes no state
\* () => setTutorState(st)
CbSetState(st) == [kind |-> "setState", st |-> st]
\* A callback that itself calls speak(segs, then), through the speak of the
\* render that created it (whose isMuted was `muted`).
CbSpeak(muted, segs, then) ==
    [kind |-> "speak", muted |-> muted, segs |-> segs, then |-> then]
\* handleNextInterviewRound of render r
CbNextRound(r) == [kind |-> "nextRound", r |-> r]
\* handleReset
CbReset == [kind |-> "reset"]

NoCallback == [call |-> 0, cb |-> CbNone]        \* onEndCallback.current = undefined

\* The current state as one record.
St ==
    [isMuted |-> isMuted, isSpeaking |-> isSpeaking, mouthShape |-> mouthShape,
     spokenText |-> spokenText,
     utteranceQueue |-> utteranceQueue, onEndCallback |-> onEndCallback,
     engineQueue |-> engineQueue, staleEnds |-> staleEnds, endOnCancel |-> endOnCancel,
     appMode |-> appMode, tutorState |-> tutorState, isLoading |-> isLoading,
     currentSkillId |-> currentSkillId, currentTopicId |-> currentTopicId,
     topics |-> topics, topics2 |-> topics2,
     hasBadge |-> hasBadge, hasBadge2 |-> hasBadge2, lesson |-> lesson,
     currentStepIndex |-> currentStepIndex,
     conversationHistory |-> conversationHistory,
     stateBeforeDoubt |-> stateBeforeDoubt, chatError |-> chatError,
     lastFailedMessage |-> lastFailedMessage, interviewSession |-> interviewSession,
     solution |-> solution,
     incorrectAttempts |-> incorrectAttempts, currentHint |-> currentHint,
     userCode |-> userCode, whiteboardDisplayCode |-> whiteboardDisplayCode,
     error |-> error,
     currentStreak |-> currentStreak, lastActivityDate |-> lastActivityDate,
     activityLog |-> activityLog, badges |-> badges, now |-> now,
     timezoneOffset |-> timezoneOffset,
     nirRender |-> nirRender, pending |-> pending, timers |-> timers,
     isListening |-> isListening, isSpeechSupported |-> isSpeechSupported,
     gateDeps |-> gateDeps, fetchDeps |-> fetchDeps,
     calls |-> calls, submitted |-> submitted, ended |-> ended, failed |-> failed,
     fired |-> fired,
     cancelled |-> cancelled, lastOp |-> lastOp, lastControl |-> lastControl,
     exchange |-> exchange]

Install(s) ==
    /\ isMuted' = s.isMuted
    /\ isSpeaking' = s.isSpeaking
    /\ mouthShape' = s.mouthShape
    /\ spokenText' = s.spokenText
    /\ utteranceQueue' = s.utteranceQueue
    /\ onEndCallback' = s.onEndCallback
    /\ engineQueue' = s.engineQueue
    /\ staleEnds' = s.staleEnds
    /\ endOnCancel' = s.endOnCancel
    /\ appMode' = s.appMode
    /\ tutorState' = s.tutorState
    /\ isLoading' = s.isLoading
    /\ currentSkillId' = s.currentSkillId
    /\ currentTopicId' = s.currentTopicId
    /\ topics' = s.topics
    /\ topics2' = s.topics2
    /\ hasBadge' = s.hasBadge
    /\ hasBadge2' = s.hasBadge2
    /\ lesson' = s.lesson
    /\ currentStepIndex' = s.currentStepIndex
    /\ conversationHistory' = s.conversationHistory
    /\ stateBeforeDoubt' = s.stateBeforeDoubt
    /\ chatError' = s.chatError
    /\ lastFailedMessage' = s.lastFailedMessage
    /\ interviewSession' = s.interviewSession
    /\ solution' = s.solution
    /\ incorrectAttempts' = s.incorrectAttempts
    /\ currentHint' = s.currentHint
    /\ userCode' = s.userCode
    /\ whiteboardDisplayCode' = s.whiteboardDisplayCode
    /\ error' = s.error
    /\ currentStreak' = s.currentStreak
    /\ lastActivityDate' = s.lastActivityDate
    /\ activityLog' = s.activityLog
    /\ badges' = s.badges
    /\ now' = s.now
    /\ timezoneOffset' = s.timezoneOffset
    /\ nirRender' = s.nirRender
    /\ pending' = s.pending
    /\ timers' = s.timers
    /\ isListening' = s.isListening
    /\ isSpeechSupported' = s.isSpeechSupported
    /\ gateDeps' = s.gateDeps
    /\ fetchDeps' = s.fetchDeps
    /\ calls' = s.calls
    /\ submitted' = s.submitted
    /\ ended' = s.ended
    /\ failed' = s.failed
    /\ fired' = s.fired
    /\ cancelled' = s.cancelled
    /\ lastOp' = s.lastOp
    /\ lastControl' = s.lastControl
    /\ exchange' = s.exchange

Op(s, name) == [s EXCEPT !.lastOp = name]

\* The cells the handlers of the render of state s close over.
Render(s) ==
    [isMuted |-> s.isMuted, appMode |-> s.appMode, tutorState |-> s.tutorState,
     currentSkillId |-> s.currentSkillId, currentTopicId |-> s.currentTopicId,
     topics |-> s.topics, topics2 |-> s.topics2,
     hasBadge |-> s.hasBadge, hasBadge2 |-> s.hasBadge2, lesson |-> s.lesson,
     currentStepIndex |-> s.currentStepIndex,
     conversationHistory |-> s.conversationHistory,
     stateBeforeDoubt |-> s.stateBeforeDoubt,
     lastFailedMessage |-> s.lastFailedMessage,
     interviewSession |-> s.interviewSession, solution |-> s.solution,
     incorrectAttempts |-> s.incorrectAttempts, currentHint |-> s.currentHint,
     userCode |-> s.userCode,
     currentStreak |-> s.currentStreak, lastActivityDate |-> s.lastActivityDate,
     activityLog |-> s.activityLog, badges |-> s.badges]

\* currentStep = lesson?.steps[currentStepIndex]
CurrentStep(r) ==
    IF r.lesson # NoLesson /\ r.currentStepIndex < Len(r.lesson.steps)
    THEN r.lesson.steps[r.currentStepIndex + 1] ELSE NoStep

\* currentSkill = currentUser?.skills.find(s => s.id === currentSkillId): the
\* completion flags of its topics. The user has the skill 1 and, when topics2
\* is not empty, the skill 2.
SkillTopics(r) == IF r.currentSkillId = 2 THEN r.topics2 ELSE r.topics

\* currentTopic: the topic of the current skill with id currentTopicId
HasCurrentTopic(r) ==
    r.currentSkillId # 0 /\ r.currentTopicId \in DOMAIN SkillTopics(r)

\* currentInterviewRound = interviewSession?.rounds[currentRoundIndex]
HasCurrentRound(r) ==
    /\ r.interviewSession # NoSession
    /\ r.interviewSession.currentRoundIndex < Len(r.interviewSession.rounds)

\* ------------------------------------------------------ the voice engine
\* window.speechSynthesis.speak(u): the engine queues u behind what it holds.
EngineSpeak(s, u) ==
    [s EXCEPT !.engineQueue = Append(@, u), !.submitted = Append(@, u)]

\* window.speechSynthesis.cancel(): every unit is dropped.  Whether the unit
\* being spoken still gets its end event afterwards depends on the browser.
EngineCancel(s) ==
    [s EXCEPT !.engineQueue = <<>>,
              !.staleEnds = IF s.endOnCancel /\ s.engineQueue # <<>> /\ @ < MaxStale
                            THEN @ + 1 ELSE @]

\* ------------------------------------------------- useSpeechSynthesis
\* The calls whose units or callback the hook or the engine still holds.
ActiveCalls(s) ==
    {u.call : u \in Range(s.utteranceQueue) \cup Range(s.engineQueue)}
        \cup (IF s.onEndCallback = NoCallback THEN {} ELSE {s.onEndCallback.call})

\* cancel() that empties the queue but keeps the pending callback.
cancel_KeepsCallback(s) ==
    LET s1 == [s EXCEPT !.utteranceQueue = <<>>,
                        !.cancelled = @ \cup (ActiveCalls(s) \ Range(s.fired))]
        s2 == EngineCancel(s1)
    IN  [s2 EXCEPT !.isSpeaking = FALSE, !.mouthShape = "X"]

cancel(s) ==
    LET s1 == [s EXCEPT !.utteranceQueue = <<>>,
                        !.onEndCallback = NoCallback,
                        !.cancelled = @ \cup (ActiveCalls(s) \ Range(s.fired))]
        s2 == EngineCancel(s1)
    IN  [s2 EXCEPT !.isSpeaking = FALSE, !.mouthShape = "X"]

RECURSIVE processQueue(_), speak(_, _, _, _, _), runCallback(_, _),
          handleNextInterviewRound(_, _)

\* Invoke completion callback cb of speak() call c.
Invoke(s, c, cb) ==
    IF cb = CbNone THEN s
    ELSE runCallback([s EXCEPT !.fired = Append(@, c)], cb)

processQueue(s) ==
    IF s.utteranceQueue # <<>>
    THEN EngineSpeak([s EXCEPT !.utteranceQueue = Tail(@)], Head(s.utteranceQueue))
    ELSE LET s1 == [s EXCEPT !.isSpeaking = FALSE, !.mouthShape = "X"]
         IN  IF s1.onEndCallback.cb # CbNone
             THEN [Invoke(s1, s1.onEndCallback.call, s1.onEndCallback.cb)
                       EXCEPT !.onEndCallback = NoCallback]
             ELSE s1

\* speak(textOrSegments, onEnd) as seen by a closure whose isMuted is `muted`.
\* `label` names the caller in the history of the run.  The texts are whole
\* phrases with no decimal number and no "use" in them, which
\* preprocessTextForSpeech leaves as they are; spokenText holds the phrases
\* whose concatenation the hook publishes.
speak(s, muted, segs, cb, label) ==
    LET c == Len(s.calls) + 1
        kept == SelectNonBlank(segs)
        s0 == [s EXCEPT !.calls = Append(@, [label |-> label, n |-> Len(kept),
                                             queued |-> ~muted /\ kept # <<>>,
                                             hasCb |-> cb # CbNone,
                                             whileMuted |-> s.isMuted])]
    IN  IF muted THEN Invoke(s0, c, cb)
        ELSE LET s1 == cancel(s0)
             IN  IF kept = <<>> THEN Invoke(s1, c, cb)
                 ELSE processQueue(
                        [s1 EXCEPT !.spokenText = kept,
                                   !.utteranceQueue =
                                       [i \in 1..Len(kept) |->
                                           [call |-> c, idx |-> i, text |-> kept[i]]],
                                   !.onEndCallback = [call |-> c, cb |-> cb],
                                   !.isSpeaking = TRUE,
                                   !.mouthShape = "A"])

toggleMute(s) ==
    IF ~s.isMuted THEN [cancel(s) EXCEPT !.isMuted = TRUE]
    ELSE [s EXCEPT !.isMuted = FALSE]

\* ------------------------------------------------------------ App: reset
handleReset(s) ==
    [cancel(s) EXCEPT !.appMode = "SELECTION",
                      !.currentSkillId = 0,
                      !.currentTopicId = 0,
                      !.lesson = NoLesson,
                      !.conversationHistory = <<>>,
                      !.currentStepIndex = 0,
                      !.solution = FALSE,
                      !.interviewSession = NoSession,
                      !.tutorState = "IDLE",
                      !.chatError = FALSE,
                      !.userCode = "",
                      !.incorrectAttempts = 0,
                      !.currentHint = NoHint,
                      !.error = FALSE,
                      !.whiteboardDisplayCode = "// Select a mode to get started!"]

\* The completion callbacks of the orchestrator.
runCallback(s, cb) ==
    CASE cb.kind = "speak" -> speak(s, cb.muted, cb.segs, cb.then, "chained")
      [] cb.kind = "setState" -> [s EXCEPT !.tutorState = cb.st]
      [] cb.kind = "nextRound" -> handleNextInterviewRound(s, cb.r)
      [] cb.kind = "reset" -> handleReset(s)
      [] OTHER -> s

\* ------------------------------------------------- App: interview rounds
\* handleNextInterviewRound of render r.  Its speak is the speak of r.
handleNextInterviewRound(s, r) ==
    IF r.interviewSession = NoSession THEN s
    ELSE LET nextRoundIndex == r.interviewSession.currentRoundIndex + 1
         IN  IF nextRoundIndex < Len(r.interviewSession.rounds)
             THEN [s EXCEPT !.timers = Append(@, [kind |-> "nextRound", r |-> r,
                                                  nextRoundIndex |-> nextRoundIndex])]
             ELSE [speak(s, r.isMuted, <<"closing">>, CbReset, "closing")
                      EXCEPT !.conversationHistory = Append(@, AiMsg("closing")),
                             !.tutorState = "COURSE_COMPLETED"]

\* ----------------------------------------------------- App: lesson steps
\* processStep that enters the waiting state of a question or a task only
\* when its speech has ended.
processStep_TaskAfterSpeech(s, r, step) ==
    CASE step.type = "EXPLANATION" ->
           LET s1 == [s EXCEPT !.tutorState = "EXPLAINING",
                               !.conversationHistory = Append(@, AiMsg(step.text))]
           IN  IF step.text # ""
               THEN speak(s1, r.isMuted, <<step.text>>,
                          CbSetState("AWAITING_CONTINUE"), "explanation")
               ELSE s1
      [] step.type = "MULTIPLE_CHOICE" ->
           LET s1 == [s EXCEPT !.tutorState = "EXPLAINING",
                               !.conversationHistory = Append(@, AiMsg(step.text))]
           IN  IF step.text # ""
               THEN speak(s1, r.isMuted, <<step.text>>,
                          CbSetState("AWAITING_CHOICE"), "question")
               ELSE s1
      [] step.type = "CODE_TASK" ->
           speak([s EXCEPT !.tutorState = "EXPLAINING",
                           !.conversationHistory = Append(@, AiMsg(step.text))],
                 r.isMuted, <<"Ab, aapki baari. ", step.text>>,
                 CbSetState("AWAITING_TASK"), "task")
      [] OTHER -> s

\* processStep of render r.
processStep(s, r, step) ==
    CASE step.type = "EXPLANATION" ->
           LET s1 == [s EXCEPT !.tutorState = "EXPLAINING",
                               !.conversationHistory = Append(@, AiMsg(step.text))]
           IN  IF step.text # ""
               THEN speak(s1, r.isMuted, <<step.text>>,
                          CbSetState("AWAITING_CONTINUE"), "explanation")
               ELSE s1
      [] step.type = "MULTIPLE_CHOICE" ->
           LET s1 == [s EXCEPT !.tutorState = "AWAITING_CHOICE",
                               !.conversationHistory = Append(@, AiMsg(step.text))]
           IN  IF step.text # ""
               THEN speak(s1, r.isMuted, <<step.text>>, CbMark, "question")
               ELSE s1
      [] step.type = "CODE_TASK" ->
           speak([s EXCEPT !.tutorState = "AWAITING_TASK",
                           !.conversationHistory = Append(@, AiMsg(step.text))],
                 r.isMuted, <<"Ab, aapki baari. ", step.text>>, CbMark, "task")
      [] OTHER -> s

\* fetchLesson of render r, up to its await.
fetchLesson(s, r) ==
    IF ~HasCurrentTopic(r)
    THEN IF r.currentSkillId # 0 /\ \A i \in DOMAIN SkillTopics(r) : SkillTopics(r)[i]
         THEN [s EXCEPT !.tutorState = "COURSE_COMPLETED"]
         ELSE s
    ELSE [s EXCEPT !.isLoading = TRUE,
                   !.error = FALSE,
                   !.tutorState = "LOADING_LESSON",
                   !.pending = Append(@, [kind |-> "lesson", r |-> r])]

\* fetchLesson that installs the lesson and leaves the loading flag up.
fetchLessonResolved_StillLoading(s, r, lessonContent) ==
    processStep([s EXCEPT !.lesson = lessonContent,
                          !.currentStepIndex = 0,
                          !.incorrectAttempts = 0,
                          !.currentHint = NoHint,
                          !.conversationHistory = <<>>],
                r, lessonContent.steps[1])

\* fetchLesson after generateLessonContent returned lessonContent.
fetchLessonResolved(s, r, lessonContent) ==
    LET codeTasks == {i \in DOMAIN lessonContent.steps :
                         lessonContent.steps[i].type = "CODE_TASK"}
        initialCode == IF codeTasks = {} THEN "// Your code will appear here"
                       ELSE lessonContent.steps[CHOOSE i \in codeTasks :
                                \A j \in codeTasks : i <= j].startingCode
        s1 == [s EXCEPT !.lesson = lessonContent,
                        !.currentStepIndex = 0,
                        !.incorrectAttempts = 0,
                        !.currentHint = NoHint,
                        !.userCode = initialCode,
                        !.whiteboardDisplayCode = initialCode,
                        !.conversationHistory = <<>>]
        s2 == IF Len(lessonContent.steps) > 0
              THEN processStep(s1, r, lessonContent.steps[1])
              ELSE [s1 EXCEPT !.tutorState = "CORRECT"]
    IN  [s2 EXCEPT !.isLoading = FALSE]

\* fetchLesson after generateLessonContent threw.
fetchLessonRejected(s) ==
    [s EXCEPT !.error = TRUE, !.tutorState = "ERROR", !.isLoading = FALSE]

\* ---------------------------------------------- App: streak and progress
\* new Date().toISOString().split('T')[0]: the UTC date of instant t.
UTCDate(t) == t \div 2

\* new Date(...).toDateString(): the date of instant t on the user's clock.
LocalDate(t, tz) == (t + tz) \div 2

\* new Date(dateString) of a date without time: midnight UTC of that date.
ParseDate(dateString) == 2 * dateString

isYesterday(dateString, t, tz) ==
    LocalDate(ParseDate(dateString), tz) = LocalDate(t, tz) - 1

isToday(dateString, t, tz) ==
    LocalDate(ParseDate(dateString), tz) = LocalDate(t, tz)

\* One lesson's points (currentTopic.points).
pointsEarned == 1

\* newStreak of handleNextStep.
newStreak(r, t, tz) ==
    IF r.lastActivityDate = NoDate \/ ~isToday(r.lastActivityDate, t, tz)
    THEN IF r.lastActivityDate # NoDate /\ isYesterday(r.lastActivityDate, t, tz)
         THEN r.currentStreak + 1
         ELSE 1
    ELSE r.currentStreak

\* newActivityLog of handleNextStep.
newActivityLog(log, today) ==
    LET hits == {i \in DOMAIN log : log[i].date = today}
    IN  IF hits # {}
        THEN LET todayLogIndex == CHOOSE i \in hits : \A j \in hits : i <= j
             IN  [log EXCEPT ![todayLogIndex].points = @ + pointsEarned]
        ELSE Append(log, [date |-> today, points |-> pointsEarned])

\* updatedUser of handleNextStep of render r at instant t.
UpdatedUser(r, t, tz) ==
    [topics |-> IF r.currentSkillId = 2 THEN r.topics
                ELSE [i \in DOMAIN r.topics |->
                         IF i = r.currentTopicId THEN TRUE ELSE r.topics[i]],
     topics2 |-> IF r.currentSkillId # 2 THEN r.topics2
                 ELSE [i \in DOMAIN r.topics2 |->
                          IF i = r.currentTopicId THEN TRUE ELSE r.topics2[i]],
     currentStreak |-> newStreak(r, t, tz),
     activityLog |-> newActivityLog(r.activityLog, UTCDate(t)),
     lastActivityDate |-> UTCDate(t),
     badges |-> r.badges,
     hasBadge |-> r.hasBadge,
     hasBadge2 |-> r.hasBadge2]

\* setUsers(users.map(u => u.id === currentUser.id ? updatedUser : u))
setUsers(s, updatedUser) ==
    [s EXCEPT !.topics = updatedUser.topics,
              !.topics2 = updatedUser.topics2,
              !.currentStreak = updatedUser.currentStreak,
              !.activityLog = updatedUser.activityLog,
              !.lastActivityDate = updatedUser.lastActivityDate,
              !.badges = updatedUser.badges,
              !.hasBadge = updatedUser.hasBadge,
              !.hasBadge2 = updatedUser.hasBadge2]

\* A completion that awards a badge every time.
courseCompleted_AlwaysAwards(s, r, updatedUser, newBadge) ==
    LET s1 == speak([s EXCEPT !.tutorState = "COURSE_COMPLETED"], r.isMuted,
                    <<"Bahut badhiya! ", "course completed">>, CbNone, "congrats")
    IN  setUsers(s1, [updatedUser EXCEPT !.badges = s.badges + 1,
                                         !.hasBadge = TRUE])

\* The congratulation of handleNextStep and what follows it; newBadge tells
\* whether a badge was generated.
courseCompleted(s, r, updatedUser, newBadge) ==
    LET s1 == speak([s EXCEPT !.tutorState = "COURSE_COMPLETED"], r.isMuted,
                    <<"Bahut badhiya! ", "course completed">>, CbNone, "congrats")
    IN  setUsers(s1, IF newBadge
                     THEN IF r.currentSkillId = 2
                          THEN [updatedUser EXCEPT !.badges = @ + 1, !.hasBadge2 = TRUE]
                          ELSE [updatedUser EXCEPT !.badges = @ + 1, !.hasBadge = TRUE]
                     ELSE updatedUser)

\* handleNextStep of render r, up to its await.
handleNextStep(s, r) ==
    LET s1 == cancel(s)
        nextStepIndex == r.currentStepIndex + 1
        updatedUser == UpdatedUser(r, s.now, s.timezoneOffset)
        completedSkill == IF r.currentSkillId = 2 THEN updatedUser.topics2
                          ELSE updatedUser.topics
    IN  IF r.lesson = NoLesson \/ r.currentSkillId = 0 THEN s1
        ELSE IF nextStepIndex < Len(r.lesson.steps)
        THEN processStep([s1 EXCEPT !.currentStepIndex = nextStepIndex], r,
                         r.lesson.steps[nextStepIndex + 1])
        ELSE IF \A i \in DOMAIN completedSkill : completedSkill[i]
        THEN IF (IF r.currentSkillId = 2 THEN r.hasBadge2 ELSE r.hasBadge) THEN courseCompleted(s1, r, updatedUser, FALSE)
             ELSE [s1 EXCEPT !.pending = Append(@, [kind |-> "badge", r |-> r,
                                                    updatedUser |-> updatedUser])]
        ELSE setUsers([s1 EXCEPT !.tutorState = "CORRECT"], updatedUser)

\* `Selected: "${choice}"`
Selected(choice) == <<"S", ":">> \o choice

handleAnswerMcq(s, r, choiceIndex) ==
    LET step == CurrentStep(r)
    IN  IF step.type # "MULTIPLE_CHOICE" THEN s
        ELSE LET s1 == [s EXCEPT !.conversationHistory =
                                      Append(@, UserMsg(Selected(step.choices[choiceIndex + 1]),
                                                        FALSE))]
             IN  IF choiceIndex = step.correctChoiceIndex
                 THEN speak(s1, r.isMuted,
                            <<IF step.feedback # "" THEN step.feedback ELSE "Bilkul sahi!">>,
                            CbSetState("AWAITING_CONTINUE"), "affirmation")
                 ELSE [speak(s1, r.isMuted, <<"Yeh sahi nahi hai.">>, CbNone, "rejection")
                          EXCEPT !.tutorState = "INCORRECT"]

handleTryAgain(s, r) ==
    IF CurrentStep(r).type = "MULTIPLE_CHOICE"
    THEN speak([s EXCEPT !.tutorState = "AWAITING_CHOICE"], r.isMuted,
               <<"Koi baat nahi">>, CbNone, "tryAgain")
    ELSE speak([s EXCEPT !.tutorState = "AWAITING_TASK"], r.isMuted,
               <<"No problem">>, CbNone, "tryAgain")

handleContinueLesson(s, r) ==
    [speak([s EXCEPT !.tutorState = r.stateBeforeDoubt], r.isMuted,
           <<"Great! Let's get back to it.">>, CbNone, "continue")
        EXCEPT !.conversationHistory = Append(@, AiMsg("back to it"))]

handleSelectTopic(s, r, topicId) ==
    IF topicId = r.currentTopicId /\ r.lesson # NoLesson THEN s
    ELSE IF r.currentSkillId # 0 /\ topicId \in DOMAIN SkillTopics(r) /\ topicId > 1
            /\ ~SkillTopics(r)[topicId - 1]
    THEN s
    ELSE [cancel(s) EXCEPT !.currentTopicId = topicId,
                           !.lesson = NoLesson,
                           !.tutorState = "LOADING_LESSON"]

handleStartLearning(s, r) ==
    IF r.currentTopicId # 0 THEN [s EXCEPT !.tutorState = "LOADING_LESSON"] ELSE s

\* findIndex gives -1 for a topic id that is not in the skill: the "next"
\* topic is then the first one.
handleNextLesson(s, r) ==
    LET currentIdx == IF r.currentTopicId \in DOMAIN SkillTopics(r)
                      THEN r.currentTopicId - 1 ELSE -1
    IN  IF r.currentSkillId # 0 /\ currentIdx < Len(SkillTopics(r)) - 1
        THEN handleSelectTopic(s, r, currentIdx + 2)
        ELSE s

\* ------------------------------------------------------------- App: chat
\* Typed or spoken text is a sequence of characters.
LowerCase(ch) ==
    CASE ch = "A" -> "a" [] ch = "B" -> "b" [] ch = "C" -> "c" [] OTHER -> ch

\* text.toLowerCase()
ToLower(text) == [i \in DOMAIN text |-> LowerCase(text[i])]

\* text.replace(/[.,?]/g, '')
StripPunctuation(text) == SelectSeq(text, LAMBDA ch : ch \notin {".", ",", "?"})

RECURSIVE TrimLeft(_), TrimRight(_)

TrimLeft(text) ==
    IF text # <<>> /\ Head(text) = " " THEN TrimLeft(Tail(text)) ELSE text

TrimRight(text) ==
    IF text # <<>> /\ text[Len(text)] = " "
    THEN TrimRight(SubSeq(text, 1, Len(text) - 1)) ELSE text

\* text.trim()
Trim(text) == TrimRight(TrimLeft(text))

\* hay.includes(needle)
Includes(hay, needle) ==
    \E i \in 0..(Len(hay) - Len(needle)) : SubSeq(hay, i + 1, i + Len(needle)) = needle

\* A lookup that takes the last matching choice.
MatchedIndex_LastHit(choices, message) ==
    LET cleanedUserChoice == Trim(StripPunctuation(ToLower(message)))
        hits == {i \in DOMAIN choices : Includes(ToLower(choices[i]), cleanedUserChoice)}
    IN  IF hits = {} THEN -1
        ELSE (CHOOSE i \in hits : \A j \in hits : i >= j) - 1

\* choices.findIndex(c => c.includes(cleanedUserChoice)), 0-based, -1 if none
MatchedIndex(choices, message) ==
    LET cleanedUserChoice == Trim(StripPunctuation(ToLower(message)))
        hits == {i \in DOMAIN choices : Includes(ToLower(choices[i]), cleanedUserChoice)}
    IN  IF hits = {} THEN -1
        ELSE (CHOOSE i \in hits : \A j \in hits : i <= j) - 1

\* The catch block of handleSendChatMessage of render r.
chatRejected(s, r, message, attachment) ==
    [s EXCEPT !.chatError = TRUE,
              !.lastFailedMessage = [message |-> message, attachment |-> attachment],
              !.tutorState = r.stateBeforeDoubt]

\* Whether handleSendChatMessage of render r throws before it calls the
\* provider: the interview has no session or round, or the chat has no context.
ChatContextMissing(r) ==
    IF r.appMode = "INTERVIEW_PREP" THEN ~HasCurrentRound(r)
    ELSE IF r.appMode = "TUTOR" THEN r.lesson = NoLesson \/ r.currentSkillId = 0
    ELSE ~r.solution

\* handleSendChatMessage of render r, up to its await.  nir is the render of
\* the handleNextInterviewRound that r holds.
handleSendChatMessage(s, r, nir, message, attachment, isSystemMessage) ==
    IF Trim(message) = <<>> /\ ~attachment THEN s
    ELSE IF /\ r.appMode = "TUTOR"
            /\ r.tutorState = "AWAITING_CHOICE"
            /\ CurrentStep(r).type = "MULTIPLE_CHOICE"
            /\ ~isSystemMessage
            /\ MatchedIndex(CurrentStep(r).choices, message) > -1
    THEN handleAnswerMcq(s, r, MatchedIndex(CurrentStep(r).choices, message))
    ELSE LET newHistory == Append(r.conversationHistory,
                                  UserMsg(message, isSystemMessage))
             s1 == [s EXCEPT !.conversationHistory = newHistory,
                             !.stateBeforeDoubt = r.tutorState,
                             !.tutorState = "CHATTING",
                             !.chatError = FALSE,
                             !.lastFailedMessage = NoMessage,
                             !.exchange = [from |-> s.tutorState, message |-> message,
                                           attachment |-> attachment,
                                           before |-> Len(s.conversationHistory),
                                           base |-> -1]]
         IN  IF ChatContextMissing(r) THEN chatRejected(s1, r, message, attachment)
             ELSE [s1 EXCEPT !.pending =
                       Append(@, [kind |-> "chat", r |-> r, nir |-> nir,
                                  message |-> message, attachment |-> attachment,
                                  submit |-> FALSE])]

\* handleSendChatMessage of render r after the provider answered.
\* updatedCode = "" is a reply without code.
chatResolved(s, r, nir, isRoundFinished, updatedCode) ==
    LET s1 == [s EXCEPT !.conversationHistory = Append(@, AiMsg("reply"))]
    IN  IF r.appMode = "INTERVIEW_PREP" /\ isRoundFinished
        THEN speak(s1, r.isMuted, <<"reply">>, CbNextRound(nir), "reply")
        ELSE LET s2 == speak(s1, r.isMuted, <<"reply">>, CbNone, "reply")
                 s3 == IF updatedCode = "" THEN s2
                       ELSE IF r.appMode = "TUTOR"
                       THEN [s2 EXCEPT !.userCode = updatedCode]
                       ELSE [s2 EXCEPT !.userCode = updatedCode,
                                       !.whiteboardDisplayCode = updatedCode]
             IN  [s3 EXCEPT !.tutorState = IF r.appMode = "TUTOR" THEN "CLARIFYING_DOUBT"
                                           ELSE "AWAITING_TASK"]

RECURSIVE LastUserIndex(_, _)

\* The index (1-based, 0 if none) of the last user turn among the first n.
LastUserIndex(history, n) ==
    IF n = 0 THEN 0
    ELSE IF history[n].sender = "user" THEN n
    ELSE LastUserIndex(history, n - 1)

handleRetryChat(s, r, nir) ==
    IF r.lastFailedMessage = NoMessage THEN s
    ELSE LET userMessageIndex == LastUserIndex(r.conversationHistory,
                                               Len(r.conversationHistory))
             s1 == IF userMessageIndex # 0
                   THEN [s EXCEPT !.conversationHistory =
                                      SubSeq(@, 1, userMessageIndex - 1)]
                   ELSE s
             s2 == [s1 EXCEPT !.lastFailedMessage = NoMessage, !.chatError = FALSE]
             s3 == handleSendChatMessage(s2, r, nir, r.lastFailedMessage.message,
                                         r.lastFailedMessage.attachment, FALSE)
         IN  [s3 EXCEPT !.exchange.base = s.exchange.before]

\* -------------------------------------------------------- App: interview
\* handleStartInterview of render r, up to its await.
handleStartInterview(s, r) ==
    [s EXCEPT !.isLoading = TRUE,
              !.error = FALSE,
              !.tutorState = "LOADING_LESSON",
              !.conversationHistory = <<>>,
              !.interviewSession = NoSession,
              !.whiteboardDisplayCode = "// Welcome to your interview",
              !.userCode = "",
              !.pending = Append(@, [kind |-> "plan", r |-> r])]

\* handleStartInterview after generateInterviewPlan returned `rounds`.
interviewPlanResolved(s, r, rounds) ==
    [s EXCEPT !.interviewSession = [rounds |-> rounds, currentRoundIndex |-> 0],
              !.conversationHistory = <<AiMsg("opening")>>,
              !.timers = Append(@, [kind |-> "opening", r |-> r]),
              !.isLoading = FALSE]

interviewPlanRejected(s) ==
    [s EXCEPT !.error = TRUE, !.tutorState = "ERROR", !.isLoading = FALSE]

\* The timer of handleStartInterview: the opening statement.
openingTimer(s, r) ==
    speak(s, r.isMuted, <<"opening">>, CbSetState("AWAITING_TASK"), "opening")

\* The timer of handleNextInterviewRound of render r: the round advances and
\* the handleSendChatMessage of that same render sends the system message.
nextRoundTimer(s, r, nextRoundIndex) ==
    LET s1 == IF s.interviewSession = NoSession THEN s
              ELSE [s EXCEPT !.interviewSession =
                       [rounds |-> [i \in DOMAIN @.rounds |->
                                       IF i = @.currentRoundIndex + 1
                                       THEN [@.rounds[i] EXCEPT !.completed = TRUE]
                                       ELSE @.rounds[i]],
                        currentRoundIndex |-> nextRoundIndex]]
    IN  handleSendChatMessage(s1, r, r, <<"r", "e", "a", "d", "y">>, FALSE, TRUE)

\* The selection screen: onSelectSkill (handleSelectSkill, then TUTOR mode).
handleSelectSkill(s, r, skillId) ==
    LET skill == IF skillId = 2 THEN r.topics2 ELSE r.topics
    IN  IF skillId = 2 /\ r.topics2 = <<>> THEN s
        ELSE [s EXCEPT !.error = FALSE,
                       !.lesson = NoLesson,
                       !.whiteboardDisplayCode = "// Click Start Learning",
                       !.currentSkillId = skillId,
                       !.currentTopicId = IF Len(skill) > 0 THEN 1 ELSE 0,
                       !.conversationHistory = <<>>,
                       !.tutorState = "SELECTING_SKILL",
                       !.appMode = "TUTOR"]

\* ------------------------------------------------- App: code submission
\* The chat message an interview submission sends (it quotes userCode).
SubmissionMessage == <<"c", "o", "d", "e">>

\* handleSubmitCode of render r, up to its await.  In an interview the
\* submission is a chat message, and isLoading is cleared when
\* handleSendChatMessage has settled.
handleSubmitCode(s, r, nir) ==
    IF \/ r.appMode \notin {"TUTOR", "INTERVIEW_PREP"}
       \/ /\ r.appMode = "TUTOR"
          /\ (r.currentSkillId = 0 \/ CurrentStep(r).type # "CODE_TASK")
    THEN s
    ELSE LET s1 == [s EXCEPT !.isLoading = TRUE,
                             !.error = FALSE,
                             !.tutorState = "EVALUATING"]
         IN  IF r.appMode = "INTERVIEW_PREP"
             THEN LET s2 == handleSendChatMessage(s1, r, nir, SubmissionMessage,
                                                  FALSE, FALSE)
                  IN  IF Len(s2.pending) > Len(s1.pending)
                      THEN [s2 EXCEPT !.pending[Len(s2.pending)].submit = TRUE]
                      ELSE [s2 EXCEPT !.isLoading = FALSE]
             ELSE [s1 EXCEPT !.pending = Append(@, [kind |-> "evaluation", r |-> r])]

\* handleSubmitCode after handleSendChatMessage has settled.
submitSettled(s, isSubmission) ==
    IF isSubmission THEN [s EXCEPT !.isLoading = FALSE] ELSE s

\* handleSubmitCode of render r after evaluateCode returned its verdict.
evaluationResolved(s, r, isCorrect, hint) ==
    LET s1 == [s EXCEPT !.conversationHistory =
                            @ \o <<UserMsg(<<"(", "s", ")">>, FALSE),
                                   AiMsg(IF isCorrect THEN "well done" ELSE "not yet")>>]
        s2 == IF isCorrect
              THEN speak([s1 EXCEPT !.incorrectAttempts = 0,
                                    !.currentHint = NoHint,
                                    !.tutorState = "AWAITING_CONTINUE"],
                         r.isMuted, <<"well done">>,
                         CbSetState("AWAITING_CONTINUE"), "accepted")
              ELSE [speak([s1 EXCEPT !.incorrectAttempts = @ + 1,
                                     !.currentHint = hint],
                          r.isMuted, <<"not yet">>, CbNone, "refused")
                       EXCEPT !.tutorState = "INCORRECT"]
    IN  [s2 EXCEPT !.isLoading = FALSE]

\* handleSubmitCode after evaluateCode threw.
evaluationRejected(s) ==
    [s EXCEPT !.error = TRUE, !.tutorState = "ERROR", !.isLoading = FALSE]

\* -------------------------------------------------------- App: hints
\* The text handleRequestHint of render r discloses ("" if none).
HintText(r) ==
    IF r.incorrectAttempts = 1 THEN r.currentHint.conceptual
    ELSE IF r.incorrectAttempts >= 2 THEN r.currentHint.direct
    ELSE ""

handleRequestHint(s, r) ==
    IF r.currentHint = NoHint THEN s
    ELSE IF HintText(r) # ""
    THEN [speak(s, r.isMuted, <<HintText(r)>>, CbNone, "hint")
             EXCEPT !.conversationHistory = Append(@, AiMsg(HintText(r)))]
    ELSE s

handleShowSolution(s, r) ==
    IF r.currentHint = NoHint \/ r.currentHint.solution = "" THEN s
    ELSE [speak([s EXCEPT !.userCode = r.currentHint.solution,
                          !.whiteboardDisplayCode = r.currentHint.solution],
                r.isMuted, <<"Koi baat nahi">>, CbSetState("AWAITING_CONTINUE"),
                "solution")
             EXCEPT !.conversationHistory = Append(@, AiMsg("Koi baat nahi"))]

\* ------------------------------------------ services: lesson validation
\* What JSON.parse gives for correctChoiceIndex: a number, null (or the field
\* missing), or a value that is not a number.
NumberIndex(n) == [kind |-> "number", value |-> n]

NullIndex == [kind |-> "null"]

TextIndex == [kind |-> "string"]

NoChoices == [none |-> TRUE]                      \* choices missing

Choices(items) == [none |-> FALSE, items |-> items]

\* A MULTIPLE_CHOICE step as the provider wrote it.
RawMultipleChoice(question, choices, index) ==
    [type |-> "MULTIPLE_CHOICE", text |-> question, choices |-> choices,
     correctChoiceIndex |-> index, feedback |-> ""]

\* The provider's answer after JSON.parse.
RawLesson(hasTitle, steps) == [topicTitle |-> hasTitle, steps |-> steps]

\* The error generateLessonContent throws.
Thrown == [thrown |-> TRUE]

\* isIndexValid of the filter of generateLessonContent.
isIndexValid(mcqStep) ==
    /\ mcqStep.correctChoiceIndex.kind # "null"
    /\ mcqStep.correctChoiceIndex.kind = "number"
    /\ mcqStep.choices # NoChoices
    /\ mcqStep.correctChoiceIndex.value < Len(mcqStep.choices.items)

\* The step the orchestrator reads: the index of a kept step is a number.
KeptStep(step) ==
    IF step.type = "MULTIPLE_CHOICE"
    THEN StepMultipleChoice(step.text, step.choices.items,
                            step.correctChoiceIndex.value, step.feedback)
    ELSE step

\* lesson.steps.filter(...) of generateLessonContent.
validatedSteps(steps) ==
    SelectSeq(steps, LAMBDA step :
        step.type = "MULTIPLE_CHOICE" => isIndexValid(step))

\* generateLessonContent without the check of the validated steps.
generateLessonContent_EmptyLesson(parsed) ==
    IF ~parsed.topicTitle \/ Len(parsed.steps) = 0 THEN Thrown
    ELSE LET kept == validatedSteps(parsed.steps)
         IN  [steps |-> [i \in DOMAIN kept |-> KeptStep(kept[i])]]

\* generateLessonContent, from the parsed answer of the provider on.
generateLessonContent(parsed) ==
    IF ~parsed.topicTitle \/ Len(parsed.steps) = 0 THEN Thrown
    ELSE LET originalStepCount == Len(parsed.steps)
             kept == validatedSteps(parsed.steps)
         IN  IF Len(kept) = 0 /\ originalStepCount > 0 THEN Thrown
             ELSE [steps |-> [i \in DOMAIN kept |-> KeptStep(kept[i])]]

\* --------------------------------------------------- useSpeechRecognition
startListening(s) == [s EXCEPT !.isListening = TRUE, !.lastControl = "start"]

stopListening(s) == [s EXCEPT !.isListening = FALSE, !.lastControl = "stop"]

\* ---------------------------------------------------------------- effects
\* canListen of the listening gate, in the render of state s.
CanListen(s) ==
    /\ s.tutorState \in {"AWAITING_TASK", "INCORRECT", "AWAITING_CHOICE"}
    /\ ~s.isLoading
    /\ ~s.isSpeaking
    /\ s.isSpeechSupported

\* A gate whose canListen ignores isSpeaking.
gateEffect_IgnoresSpeaking(s, prevListening, t) ==
    LET t1 == IF prevListening THEN stopListening(t) ELSE t
        canListen == /\ s.tutorState \in {"AWAITING_TASK", "INCORRECT", "AWAITING_CHOICE"}
                     /\ ~s.isLoading
                     /\ s.isSpeechSupported
    IN  IF canListen /\ ~s.isListening THEN startListening(t1)
        ELSE IF ~canListen /\ s.isListening THEN stopListening(t1)
        ELSE t1

\* The listening gate effect of the render of state s, applied to state t:
\* the cleanup of the previous run (whose render had isListening =
\* prevListening), then the body.
gateEffect(s, prevListening, t) ==
    LET t1 == IF prevListening THEN stopListening(t) ELSE t
    IN  IF CanListen(s) /\ ~s.isListening THEN startListening(t1)
        ELSE IF ~CanListen(s) /\ s.isListening THEN stopListening(t1)
        ELSE t1

\* The dependencies of the gate effect that change.
GateDeps(s) == <<s.tutorState, s.isLoading, s.isSpeaking, s.isListening>>

\* The dependencies of the fetch effect that change: currentTopicId,
\* tutorState, and what fetchLesson is rebuilt on (the current topic and
\* skill, and processStep: speak, currentStepIndex, lesson).
FetchDeps(s) ==
    <<s.currentTopicId, s.tutorState, s.currentSkillId, s.topics, s.topics2,
      s.hasBadge, s.hasBadge2, s.isMuted, s.currentStepIndex, s.lesson>>

\* The fetch effect of the render of state s, applied to state t.
fetchEffect(s, t) ==
    IF s.currentTopicId # 0 /\ s.tutorState = "LOADING_LESSON"
    THEN fetchLesson(t, Render(s))
    ELSE t

RECURSIVE RunEffects(_)

\* Render state s and run the effects whose dependencies changed, until a
\* render changes nothing.
RunEffects(s) ==
    LET t1 == IF FetchDeps(s) # s.fetchDeps THEN fetchEffect(s, s) ELSE s
        t2 == IF GateDeps(s) # s.gateDeps
              THEN gateEffect(s, s.gateDeps[4], t1) ELSE t1
        t3 == [t2 EXCEPT !.fetchDeps = FetchDeps(s), !.gateDeps = GateDeps(s)]
    IN  IF t3 = s THEN s ELSE RunEffects(t3)

\* handleNextInterviewRound is rebuilt when interviewSession or the current
\* user changes; it then closes over the render that follows the change.
Memoize(s0, s) ==
    IF s.interviewSession # s0.interviewSession \/ s.topics # s0.topics
       \/ s.topics2 # s0.topics2 \/ s.hasBadge2 # s0.hasBadge2
       \/ s.hasBadge # s0.hasBadge \/ s.badges # s0.badges
       \/ s.currentStreak # s0.currentStreak
       \/ s.lastActivityDate # s0.lastActivityDate
       \/ s.activityLog # s0.activityLog
    THEN [s EXCEPT !.nirRender = Render(s)]
    ELSE s

\* The step of the system that handler result s makes: s is committed, the
\* next render's callbacks are built and its effects run.
DoBounded(s, name, maxCalls, maxHistory, maxPending) ==
    \E t \in {RunEffects(Memoize(St, Op(s, name)))} :
        /\ Len(t.calls) <= maxCalls
        /\ Len(t.pending) <= maxPending
        /\ Len(t.conversationHistory) <= maxHistory
        /\ Install(t)

DoWithin(s, name, maxCalls, maxHistory) ==
    DoBounded(s, name, maxCalls, maxHistory, MaxPending)

Do(s, name, maxCalls) == DoWithin(s, name, maxCalls, MaxHistory)

\* What the App renders (its early returns).
Screen(s) ==
    IF s.tutorState = "COURSE_COMPLETED" /\ s.appMode # "INTERVIEW_PREP" THEN "completion"
    ELSE IF s.appMode = "SELECTION" THEN "selection"
    ELSE IF s.appMode = "INTERVIEW_PREP" /\ s.interviewSession = NoSession THEN "setup"
    ELSE "main"

\* The isLoading the TutorPanel is given.
PanelLoading(s) ==
    s.isLoading \/ s.tutorState \in {"LOADING_LESSON", "EVALUATING", "CHATTING"}

\* ------------------------------------------------- actions: speech engine
SegInputs == UNION {[1..n -> Texts] : n \in 0..MaxSegs}

\* The callbacks a caller of the hook alone hands to speak().
CallerCallbacks == {CbNone, CbMark, CbSpeak(isMuted, <<"a">>, CbMark)}

Speak ==
    \E segs \in SegInputs, cb \in CallerCallbacks :
        Do(speak(St, isMuted, segs, cb, "caller"), "speak", MaxCalls)

Cancel ==
    /\ TRUE
    /\ Do(cancel(St), "cancel", MaxCalls)

SpeechToggleMute ==
    /\ TRUE
    /\ Do(toggleMute(St), "toggleMute", MaxCalls)

\* The engine finishes the unit it is speaking: utterance.onend.
unitEnd(s) ==
    processQueue([s EXCEPT !.engineQueue = Tail(@),
                           !.ended = @ \cup {Head(s.engineQueue)}])

\* The end event of a unit that cancel() interrupted arrives.
staleEnd(s) == processQueue([s EXCEPT !.staleEnds = @ - 1])

SpeechUnitEnd ==
    /\ engineQueue # <<>>
    /\ Do(unitEnd(St), "event", MaxCalls)

SpeechStaleEnd ==
    /\ staleEnds > 0
    /\ Do(staleEnd(St), "event", MaxCalls)

\* utterance.onboundary with a word boundary.
Boundary ==
    /\ engineQueue # <<>>
    /\ \E shape \in MOUTH_SHAPES :
          Do([St EXCEPT !.mouthShape = shape], "event", MaxCalls)

\* The selection screen for a user whose one skill has the topics `ts`: the
\* state after mount and, with the mute setting that handleReset leaves as
\* it is, the state between two sessions.
Mounted(ts, supported, eoc, muted) ==
    LET s == [isMuted |-> muted, isSpeaking |-> FALSE, mouthShape |-> "X",
              spokenText |-> <<>>,
              utteranceQueue |-> <<>>, onEndCallback |-> NoCallback,
              engineQueue |-> <<>>, staleEnds |-> 0, endOnCancel |-> eoc,
              appMode |-> "SELECTION", tutorState |-> "IDLE", isLoading |-> FALSE,
              currentSkillId |-> 0, currentTopicId |-> 0,
              topics |-> ts, topics2 |-> <<>>,
              hasBadge |-> FALSE, hasBadge2 |-> FALSE, lesson |-> NoLesson,
              currentStepIndex |-> 0, conversationHistory |-> <<>>,
              stateBeforeDoubt |-> "AWAITING_TASK", chatError |-> FALSE,
              lastFailedMessage |-> NoMessage, interviewSession |-> NoSession,
              solution |-> FALSE,
              incorrectAttempts |-> 0, currentHint |-> NoHint, userCode |-> "",
              whiteboardDisplayCode |-> "// Select a mode to get started!",
              error |-> FALSE,
              currentStreak |-> 0, lastActivityDate |-> NoDate,
              activityLog |-> <<>>, badges |-> 0, now |-> FirstInstant,
              timezoneOffset |-> 0,
              nirRender |-> NoMessage, pending |-> <<>>, timers |-> <<>>,
              isListening |-> FALSE, isSpeechSupported |-> supported,
              gateDeps |-> <<>>, fetchDeps |-> <<>>,
              calls |-> <<>>, submitted |-> <<>>, ended |-> {}, failed |-> {},
              fired |-> <<>>,
              cancelled |-> {}, lastOp |-> "init", lastControl |-> "none",
              exchange |-> [from |-> "IDLE", message |-> <<>>, attachment |-> FALSE,
                            before |-> 0, base |-> -1]]
    IN  [s EXCEPT !.nirRender = Render(s), !.gateDeps = GateDeps(s),
                  !.fetchDeps = FetchDeps(s)]

InitWith(s) ==
    /\ isMuted = s.isMuted
    /\ isSpeaking = s.isSpeaking
    /\ mouthShape = s.mouthShape
    /\ spokenText = s.spokenText
    /\ utteranceQueue = s.utteranceQueue
    /\ onEndCallback = s.onEndCallback
    /\ engineQueue = s.engineQueue
    /\ staleEnds = s.staleEnds
    /\ endOnCancel = s.endOnCancel
    /\ appMode = s.appMode
    /\ tutorState = s.tutorState
    /\ isLoading = s.isLoading
    /\ currentSkillId = s.currentSkillId
    /\ currentTopicId = s.currentTopicId
    /\ topics = s.topics
    /\ topics2 = s.topics2
    /\ hasBadge = s.hasBadge
    /\ hasBadge2 = s.hasBadge2
    /\ lesson = s.lesson
    /\ currentStepIndex = s.currentStepIndex
    /\ conversationHistory = s.conversationHistory
    /\ stateBeforeDoubt = s.stateBeforeDoubt
    /\ chatError = s.chatError
    /\ lastFailedMessage = s.lastFailedMessage
    /\ interviewSession = s.interviewSession
    /\ solution = s.solution
    /\ incorrectAttempts = s.incorrectAttempts
    /\ currentHint = s.currentHint
    /\ userCode = s.userCode
    /\ whiteboardDisplayCode = s.whiteboardDisplayCode
    /\ error = s.error
    /\ currentStreak = s.currentStreak
    /\ lastActivityDate = s.lastActivityDate
    /\ activityLog = s.activityLog
    /\ badges = s.badges
    /\ now = s.now
    /\ timezoneOffset = s.timezoneOffset
    /\ nirRender = s.nirRender
    /\ pending = s.pending
    /\ timers = s.timers
    /\ isListening = s.isListening
    /\ isSpeechSupported = s.isSpeechSupported
    /\ gateDeps = s.gateDeps
    /\ fetchDeps = s.fetchDeps
    /\ calls = s.calls
    /\ submitted = s.submitted
    /\ ended = s.ended
    /\ failed = s.failed
    /\ fired = s.fired
    /\ cancelled = s.cancelled
    /\ lastOp = s.lastOp
    /\ lastControl = s.lastControl
    /\ exchange = s.exchange

SpeechInit == \E eoc \in BOOLEAN : InitWith(Mounted(<<>>, TRUE, eoc, FALSE))

SpeechNext ==
    Speak \/ Cancel \/ SpeechToggleMute \/ SpeechUnitEnd \/ SpeechStaleEnd \/ Boundary

SpecSpeech == SpeechInit /\ [][SpeechNext]_vars

\* --------------------------------------------------- actions: orchestrator
UnitEnd ==
    /\ engineQueue # <<>>
    /\ Do(unitEnd(St), "event", MaxAppCalls)

StaleEnd ==
    /\ staleEnds > 0
    /\ Do(staleEnd(St), "event", MaxAppCalls)

ToggleMute ==
    /\ Screen(St) = "main"
    /\ Do(toggleMute(St), "user", MaxAppCalls)

\* The recognizer stops by itself (silence, or the end of an utterance).
RecognitionEnds ==
    /\ isListening
    /\ Do([St EXCEPT !.isListening = FALSE], "user", MaxAppCalls)

SelectSkill ==
    /\ Screen(St) = "selection"
    /\ Do(handleSelectSkill(St, Render(St), 1), "user", MaxAppCalls)

StartLearning ==
    /\ Screen(St) = "main"
    /\ appMode = "TUTOR"
    /\ tutorState = "SELECTING_SKILL"
    /\ Do(handleStartLearning(St, Render(St)), "user", MaxAppCalls)

NextLesson ==
    /\ Screen(St) = "main"
    /\ appMode = "TUTOR"
    /\ tutorState = "CORRECT"
    /\ Do(handleNextLesson(St, Render(St)), "user", MaxAppCalls)

\* The lessons generateLessonContent returns.
McqStep ==
    StepMultipleChoice("q", <<<<"A", " ", "c", "a", "t">>, <<"B", " ", "d", "o", "g">>>>,
                       1, "")

Lessons ==
    {[steps |-> <<McqStep, StepExplanation("a")>>],
     [steps |-> <<StepExplanation("a")>>],
     [steps |-> <<StepCodeTask("m")>>]}

LessonResolved ==
    \E i \in DOMAIN pending, lessonContent \in Lessons :
        /\ pending[i].kind = "lesson"
        /\ Do(fetchLessonResolved([St EXCEPT !.pending = RemoveAt(@, i)],
                                  pending[i].r, lessonContent),
              "reply", MaxAppCalls)

LessonRejected ==
    \E i \in DOMAIN pending :
        /\ pending[i].kind = "lesson"
        /\ Do(fetchLessonRejected([St EXCEPT !.pending = RemoveAt(@, i)]),
              "reply", MaxAppCalls)

NextStep ==
    /\ Screen(St) = "main"
    /\ appMode = "TUTOR"
    /\ tutorState = "AWAITING_CONTINUE"
    /\ Do(handleNextStep(St, Render(St)), "user", MaxAppCalls)

\* generateBadgeTitle returns (it never throws).
BadgeResolved ==
    \E i \in DOMAIN pending :
        /\ pending[i].kind = "badge"
        /\ Do(courseCompleted([St EXCEPT !.pending = RemoveAt(@, i)],
                              pending[i].r, pending[i].updatedUser, TRUE),
              "reply", MaxAppCalls)

AnswerMcq ==
    /\ Screen(St) = "main"
    /\ appMode = "TUTOR"
    /\ tutorState = "AWAITING_CHOICE"
    /\ CurrentStep(St).type = "MULTIPLE_CHOICE"
    /\ \E choiceIndex \in 0..(Len(CurrentStep(St).choices) - 1) :
          Do(handleAnswerMcq(St, Render(St), choiceIndex), "user", MaxAppCalls)

TryAgain ==
    /\ Screen(St) = "main"
    /\ tutorState = "INCORRECT"
    /\ Do(handleTryAgain(St, Render(St)), "user", MaxAppCalls)

ContinueLesson ==
    /\ Screen(St) = "main"
    /\ tutorState = "CLARIFYING_DOUBT"
    /\ Do(handleContinueLesson(St, Render(St)), "user", MaxAppCalls)

\* What the user types or says.
ChatTexts == {<<"w", "h", "y", "?">>}

SendChat ==
    /\ Screen(St) = "main"
    /\ ~PanelLoading(St)
    /\ \E message \in ChatTexts, attachment \in BOOLEAN :
          Do(handleSendChatMessage(St, Render(St), nirRender, message, attachment, FALSE),
             "user", MaxAppCalls)

\* onTranscriptEnd: the recognizer hands over a final transcript.
TranscriptEnd ==
    /\ isListening
    /\ \E message \in ChatTexts :
          Do(handleSendChatMessage(St, Render(St), nirRender, message, FALSE, FALSE),
             "user", MaxAppCalls)

\* The code a chat reply may carry: none, or a rewritten buffer.
UpdatedCodes == {"", "// updated"}

ChatResolved ==
    \E i \in DOMAIN pending, isRoundFinished \in BOOLEAN, updatedCode \in UpdatedCodes :
        /\ pending[i].kind = "chat"
        /\ isRoundFinished => pending[i].r.appMode = "INTERVIEW_PREP"
        /\ Do(submitSettled(chatResolved([St EXCEPT !.pending = RemoveAt(@, i)],
                                         pending[i].r, pending[i].nir,
                                         isRoundFinished, updatedCode),
                            pending[i].submit),
              "chatResolved", MaxAppCalls)

ChatRejected ==
    \E i \in DOMAIN pending :
        /\ pending[i].kind = "chat"
        /\ Do(submitSettled(chatRejected([St EXCEPT !.pending = RemoveAt(@, i)],
                                         pending[i].r, pending[i].message,
                                         pending[i].attachment),
                            pending[i].submit),
              "chatRejected", MaxAppCalls)

RetryChat ==
    /\ Screen(St) = "main"
    /\ chatError
    /\ Do(handleRetryChat(St, Render(St), nirRender), "user", MaxAppCalls)

\* The user profiles the session starts from: one skill whose completed
\* topics are a prefix of its topics.
InitTopics == {<<FALSE>>, <<TRUE, FALSE>>}

TutorInit ==
    \E ts \in InitTopics, supported \in BOOLEAN, eoc \in BOOLEAN :
        InitWith(Mounted(ts, supported, eoc, FALSE))

LessonNext ==
    \/ SelectSkill \/ StartLearning \/ NextLesson
    \/ LessonResolved \/ LessonRejected \/ NextStep \/ BadgeResolved
    \/ AnswerMcq \/ TryAgain
    \/ ToggleMute \/ UnitEnd \/ StaleEnd \/ RecognitionEnds

SpecLesson == TutorInit /\ [][LessonNext]_vars

\* The lesson of the chat sessions.
ChatLessons == {[steps |-> <<McqStep>>]}

ChatLessonResolved ==
    \E i \in DOMAIN pending, lessonContent \in ChatLessons :
        /\ pending[i].kind = "lesson"
        /\ Do(fetchLessonResolved([St EXCEPT !.pending = RemoveAt(@, i)],
                                  pending[i].r, lessonContent),
              "reply", MaxAppCalls)

ChatInit == \E eoc \in BOOLEAN : InitWith(Mounted(<<FALSE>>, TRUE, eoc, FALSE))

ChatNext ==
    \/ SelectSkill \/ StartLearning \/ ChatLessonResolved \/ AnswerMcq
    \/ SendChat \/ TranscriptEnd \/ ChatResolved \/ ChatRejected \/ RetryChat
    \/ ContinueLesson \/ UnitEnd \/ StaleEnd \/ RecognitionEnds

SpecChat == ChatInit /\ [][ChatNext]_vars

\* ---------------------------------------------------- actions: interview
\* The selection screen: onSetMode('INTERVIEW_PREP').
SetInterviewMode ==
    /\ Screen(St) = "selection"
    /\ Do([St EXCEPT !.appMode = "INTERVIEW_PREP"], "user", MaxAppCalls)

StartInterview ==
    /\ Screen(St) = "setup"
    /\ ~isLoading
    /\ Do(handleStartInterview(St, Render(St)), "user", MaxAppCalls)

\* The round types of a plan: one that is a coding task and one that is not.
RoundTypes == {"BEHAVIOURAL", "CODING_CHALLENGE"}

\* The plans generateInterviewPlan returns.
Plans ==
    UNION {[1..n -> [type : RoundTypes, completed : {FALSE}]] : n \in 1..MaxRounds}

PlanResolved ==
    \E i \in DOMAIN pending, rounds \in Plans :
        /\ pending[i].kind = "plan"
        /\ Do(interviewPlanResolved([St EXCEPT !.pending = RemoveAt(@, i)],
                                    pending[i].r, rounds),
              "reply", MaxAppCalls)

PlanRejected ==
    \E i \in DOMAIN pending :
        /\ pending[i].kind = "plan"
        /\ Do(interviewPlanRejected([St EXCEPT !.pending = RemoveAt(@, i)]),
              "reply", MaxAppCalls)

\* The oldest setTimeout callback runs.
TimerFires ==
    /\ timers # <<>>
    /\ LET timer == Head(timers)
           s == [St EXCEPT !.timers = Tail(@)]
       IN  Do(IF timer.kind = "opening" THEN openingTimer(s, timer.r)
              ELSE nextRoundTimer(s, timer.r, timer.nextRoundIndex),
              "timer", MaxAppCalls)

InterviewInit ==
    \E eoc \in BOOLEAN, muted \in BOOLEAN : InitWith(Mounted(<<FALSE>>, TRUE, eoc, muted))

InterviewNext ==
    \/ SetInterviewMode \/ StartInterview \/ PlanResolved \/ PlanRejected
    \/ TimerFires \/ SendChat \/ ChatResolved \/ ChatRejected
    \/ ToggleMute \/ UnitEnd \/ StaleEnd

SpecInterview == InterviewInit /\ [][InterviewNext]_vars

\* ------------------------------------------- actions: answering by text
\* The question of the lessons whose answer the user types or says.
ExampleMcq ==
    StepMultipleChoice("q", <<<<"A", " ", "c", "a", "t">>, <<"B", " ", "d", "o", "g">>,
                              <<"C", " ", "b", "i", "r", "d">>>>, 1, "")

ExampleLessons == {[steps |-> <<ExampleMcq>>]}

ExampleLessonResolved ==
    \E i \in DOMAIN pending, lessonContent \in ExampleLessons :
        /\ pending[i].kind = "lesson"
        /\ Do(fetchLessonResolved([St EXCEPT !.pending = RemoveAt(@, i)],
                                  pending[i].r, lessonContent),
              "reply", MaxAppCalls)

\* What the user types into the chat box or says to the recognizer.
AnswerTexts ==
    {<<"B">>, <<" ", "B">>, <<"b", ".">>, <<"c">>, <<" ">>, <<"w", "h", "y">>, <<"?">>}

TypeMessage ==
    /\ Screen(St) = "main"
    /\ ~PanelLoading(St)
    /\ \E message \in AnswerTexts :
          Do(handleSendChatMessage(St, Render(St), nirRender, message, FALSE, FALSE),
             "typed", MaxAppCalls)

McqNext ==
    \/ SelectSkill \/ StartLearning \/ ExampleLessonResolved
    \/ AnswerMcq \/ TypeMessage \/ TryAgain \/ ChatResolved \/ ChatRejected
    \/ UnitEnd \/ StaleEnd \/ RecognitionEnds

SpecMcq == ChatInit /\ [][McqNext]_vars

\* ------------------------------------------------- actions: code tasks
\* isCodeTask of the render of state s.
isCodeTask(s) ==
    \/ s.appMode = "TUTOR" /\ CurrentStep(s).type = "CODE_TASK"
    \/ /\ s.appMode = "INTERVIEW_PREP"
       /\ HasCurrentRound(s)
       /\ s.interviewSession.rounds[s.interviewSession.currentRoundIndex + 1].type
             \in {"CODING_CHALLENGE", "SYSTEM_DESIGN"}

\* whiteboardEditable of the render of state s.
whiteboardEditable(s) ==
    \/ s.appMode = "DOUBT_SOLVER" /\ s.solution
    \/ s.appMode = "TUTOR" /\ s.tutorState = "AWAITING_TASK"
    \/ isCodeTask(s) /\ s.tutorState = "AWAITING_TASK"

\* The submit button of the whiteboard is shown and enabled.
CanSubmit(s) ==
    /\ Screen(s) = "main"
    /\ isCodeTask(s)
    /\ whiteboardEditable(s)
    /\ s.userCode # ""
    /\ s.tutorState # "EVALUATING"

TaskDo(s, name) == DoWithin(s, name, MaxTaskCalls, MaxTaskHistory)

\* The lessons of the code-task sessions: two tasks in a row.
TaskLessons == {[steps |-> <<StepCodeTask("m"), StepCodeTask("n")>>]}

TaskLessonResolved ==
    \E i \in DOMAIN pending, lessonContent \in TaskLessons :
        /\ pending[i].kind = "lesson"
        /\ TaskDo(fetchLessonResolved([St EXCEPT !.pending = RemoveAt(@, i)],
                                      pending[i].r, lessonContent),
                  "reply")

SubmitCode ==
    /\ CanSubmit(St)
    /\ TaskDo(handleSubmitCode(St, Render(St), nirRender), "submit")

\* onSubmissionIntent: the recognizer heard the submit command.
SubmissionIntent ==
    /\ isListening
    /\ TaskDo(handleSubmitCode(St, Render(St), nirRender), "submit")

\* The hints evaluateCode returns with an incorrect verdict: all tiers, or
\* one without a solution text.
Hints == {Hint("think", "do this", "x = 1"), Hint("think", "do this", "")}

EvaluationResolved ==
    \E i \in DOMAIN pending, isCorrect \in BOOLEAN, hint \in Hints :
        /\ pending[i].kind = "evaluation"
        /\ TaskDo(evaluationResolved([St EXCEPT !.pending = RemoveAt(@, i)],
                                     pending[i].r, isCorrect, hint),
                  IF isCorrect THEN "accepted" ELSE "refused")

EvaluationRejected ==
    \E i \in DOMAIN pending :
        /\ pending[i].kind = "evaluation"
        /\ TaskDo(evaluationRejected([St EXCEPT !.pending = RemoveAt(@, i)]), "reply")

\* TutorPanel offers the hint and the solution on an incorrect answer.
RequestHint ==
    /\ Screen(St) = "main"
    /\ tutorState = "INCORRECT"
    /\ TaskDo(handleRequestHint(St, Render(St)), "hint")

ShowSolution ==
    /\ Screen(St) = "main"
    /\ tutorState = "INCORRECT"
    /\ TaskDo(handleShowSolution(St, Render(St)), "solution")

TaskTryAgain ==
    /\ Screen(St) = "main"
    /\ tutorState = "INCORRECT"
    /\ TaskDo(handleTryAgain(St, Render(St)), "user")

TaskNextStep ==
    /\ Screen(St) = "main"
    /\ appMode = "TUTOR"
    /\ tutorState = "AWAITING_CONTINUE"
    /\ TaskDo(handleNextStep(St, Render(St)), "user")

TaskUnitEnd ==
    /\ engineQueue # <<>>
    /\ TaskDo(unitEnd(St), "event")

TaskStaleEnd ==
    /\ staleEnds > 0
    /\ TaskDo(staleEnd(St), "event")

TaskRecognitionEnds ==
    /\ isListening
    /\ TaskDo([St EXCEPT !.isListening = FALSE], "user")

TaskNext ==
    \/ SelectSkill \/ StartLearning \/ TaskLessonResolved
    \/ SubmitCode \/ SubmissionIntent \/ EvaluationResolved \/ EvaluationRejected
    \/ RequestHint \/ ShowSolution \/ TaskTryAgain \/ TaskNextStep
    \/ TaskUnitEnd \/ TaskStaleEnd \/ TaskRecognitionEnds

SpecTask == ChatInit /\ [][TaskNext]_vars

\* ------------------------------------- actions: submitting in an interview
\* onCodeChange: the user types into the editable whiteboard.
EditCode ==
    /\ Screen(St) = "main"
    /\ whiteboardEditable(St)
    /\ Do([St EXCEPT !.userCode = "typed"], "user", MaxAppCalls)

SubmitNext ==
    \/ SetInterviewMode \/ StartInterview \/ PlanResolved \/ TimerFires
    \/ EditCode \/ SubmitCode \/ SubmissionIntent \/ ChatResolved \/ ChatRejected
    \/ UnitEnd \/ StaleEnd \/ RecognitionEnds

SpecSubmit == InterviewInit /\ [][SubmitNext]_vars

\* ------------------------------------ actions: switching topics, resetting
TopicDo(s, name) == DoBounded(s, name, MaxAppCalls, MaxHistory, MaxFetches)

\* generateLessonContent(skill, topic): the lesson of each topic.
TopicLesson(topicId) ==
    IF topicId = 1
    THEN [steps |-> <<StepExplanation("a")>>, topic |-> 1]
    ELSE [steps |-> <<McqStep>>, topic |-> topicId]

\* A skill of two topics, the first one completed: both can be selected.
TopicInit ==
    \E eoc \in BOOLEAN : InitWith(Mounted(<<TRUE, FALSE>>, FALSE, eoc, FALSE))

TopicSelectSkill ==
    /\ Screen(St) = "selection"
    /\ TopicDo(handleSelectSkill(St, Render(St), 1), "user")

TopicStartLearning ==
    /\ Screen(St) = "main"
    /\ appMode = "TUTOR"
    /\ tutorState = "SELECTING_SKILL"
    /\ TopicDo(handleStartLearning(St, Render(St)), "startLearning")

\* A topic of the progress tracker is clicked.
SelectTopic ==
    \E topicId \in DOMAIN topics :
        /\ Screen(St) = "main"
        /\ appMode = "TUTOR"
        /\ TopicDo(handleSelectTopic(St, Render(St), topicId), "selectTopic")

TopicNextLesson ==
    /\ Screen(St) = "main"
    /\ appMode = "TUTOR"
    /\ tutorState = "CORRECT"
    /\ TopicDo(handleNextLesson(St, Render(St)), "nextLesson")

\* The reset button of the progress tracker.
Reset ==
    /\ Screen(St) = "main"
    /\ appMode = "TUTOR"
    /\ TopicDo(handleReset(St), "reset")

TopicLessonResolved ==
    \E i \in DOMAIN pending :
        /\ pending[i].kind = "lesson"
        /\ TopicDo(fetchLessonResolved([St EXCEPT !.pending = RemoveAt(@, i)],
                                       pending[i].r,
                                       TopicLesson(pending[i].r.currentTopicId)),
                   "reply")

TopicLessonRejected ==
    \E i \in DOMAIN pending :
        /\ pending[i].kind = "lesson"
        /\ TopicDo(fetchLessonRejected([St EXCEPT !.pending = RemoveAt(@, i)]),
                   "reply")

TopicNextStep ==
    /\ Screen(St) = "main"
    /\ appMode = "TUTOR"
    /\ tutorState = "AWAITING_CONTINUE"
    /\ TopicDo(handleNextStep(St, Render(St)), "user")

TopicUnitEnd ==
    /\ engineQueue # <<>>
    /\ TopicDo(unitEnd(St), "event")

TopicStaleEnd ==
    /\ staleEnds > 0
    /\ TopicDo(staleEnd(St), "event")

TopicNext ==
    \/ TopicSelectSkill \/ TopicStartLearning \/ SelectTopic \/ TopicNextLesson
    \/ Reset \/ TopicLessonResolved \/ TopicLessonRejected \/ TopicNextStep
    \/ TopicUnitEnd \/ TopicStaleEnd

SpecTopic == TopicInit /\ [][TopicNext]_vars

\* -------------------------------- actions: lessons as the provider sends them
\* The two choices of the provider's questions.
RawChoices == <<<<"A", " ", "c", "a", "t">>, <<"B", " ", "d", "o", "g">>>>

\* The values the provider writes for correctChoiceIndex.
RawIndexes == {NullIndex, TextIndex} \cup {NumberIndex(n) : n \in -1..2}

RawSteps ==
    {StepExplanation("a"), RawMultipleChoice("q", NoChoices, NumberIndex(0))}
    \cup {RawMultipleChoice("q", Choices(RawChoices), index) : index \in RawIndexes}

RawLessons ==
    {RawLesson(hasTitle, steps) :
        hasTitle \in BOOLEAN,
        steps \in UNION {[1..n -> RawSteps] : n \in 0..MaxRawSteps}}

\* generateLessonContent settles for an answer of the provider: fetchLesson
\* goes on after its await, or into its catch block.
ProviderAnswers ==
    \E i \in DOMAIN pending, raw \in RawLessons :
        /\ pending[i].kind = "lesson"
        /\ LET s == [St EXCEPT !.pending = RemoveAt(@, i)]
               lessonContent == generateLessonContent(raw)
           IN  Do(IF lessonContent = Thrown THEN fetchLessonRejected(s)
                  ELSE fetchLessonResolved(s, pending[i].r, lessonContent),
                  IF lessonContent # Thrown THEN "reply"
                  ELSE IF raw.topicTitle /\ Len(raw.steps) > 0 THEN "invalid"
                  ELSE "thrown",
                  MaxAppCalls)

ProviderNext ==
    \/ SelectSkill \/ StartLearning \/ ProviderAnswers
    \/ AnswerMcq \/ TryAgain \/ NextStep \/ NextLesson \/ BadgeResolved
    \/ UnitEnd \/ StaleEnd \/ RecognitionEnds

SpecProvider == TutorInit /\ [][ProviderNext]_vars

\* --------------------------------------- actions: completing lessons
ProgressDo(s, name) == DoBounded(s, name, MaxProgressCalls, MaxHistory, MaxFetches)

\* The user's clock is behind UTC, on UTC, or ahead of it (by half a day).
TimezoneOffsets == {-1, 0, 1}

\* A new user with a skill of one or two topics, speech muted.
ProgressInit ==
    \E ts \in {<<FALSE>>, <<FALSE, FALSE>>}, tz \in TimezoneOffsets :
        InitWith([Mounted(ts, FALSE, FALSE, TRUE) EXCEPT !.timezoneOffset = tz])

\* Half a day passes.
Tick ==
    /\ now < MaxNow
    /\ ProgressDo([St EXCEPT !.now = @ + 1], "tick")

ProgressSelectSkill ==
    /\ Screen(St) = "selection"
    /\ ProgressDo(handleSelectSkill(St, Render(St), 1), "user")

ProgressStartLearning ==
    /\ Screen(St) = "main"
    /\ appMode = "TUTOR"
    /\ tutorState = "SELECTING_SKILL"
    /\ ProgressDo(handleStartLearning(St, Render(St)), "user")

ProgressNextLesson ==
    /\ Screen(St) = "main"
    /\ appMode = "TUTOR"
    /\ tutorState = "CORRECT"
    /\ ProgressDo(handleNextLesson(St, Render(St)), "user")

\* Every lesson is one explanation.
ProgressLessonResolved ==
    \E i \in DOMAIN pending :
        /\ pending[i].kind = "lesson"
        /\ ProgressDo(fetchLessonResolved([St EXCEPT !.pending = RemoveAt(@, i)],
                                          pending[i].r,
                                          [steps |-> <<StepExplanation("a")>>]),
                      "reply")

\* The continue button: the lesson is completed.
ProgressNextStep ==
    /\ Screen(St) = "main"
    /\ appMode = "TUTOR"
    /\ tutorState = "AWAITING_CONTINUE"
    /\ ProgressDo(handleNextStep(St, Render(St)), "completed")

ProgressBadgeResolved ==
    \E i \in DOMAIN pending :
        /\ pending[i].kind = "badge"
        /\ ProgressDo(courseCompleted([St EXCEPT !.pending = RemoveAt(@, i)],
                                      pending[i].r, pending[i].updatedUser, TRUE),
                      "badge")

\* Back to the dashboard, from the completion screen or the lesson.
ProgressReset ==
    /\ \/ Screen(St) = "completion"
       \/ Screen(St) = "main" /\ appMode = "TUTOR"
    /\ ProgressDo(handleReset(St), "reset")

ProgressNext ==
    \/ Tick \/ ProgressSelectSkill \/ ProgressStartLearning \/ ProgressNextLesson
    \/ ProgressLessonResolved \/ ProgressNextStep \/ ProgressBadgeResolved
    \/ ProgressReset

SpecProgress == ProgressInit /\ [][ProgressNext]_vars

\* --------------------------------------- actions: a user with two skills
\* A new user who has created two skills, the first of one topic and the
\* second of two; speech muted.
SkillsInit ==
    LET s == [Mounted(<<FALSE>>, FALSE, FALSE, TRUE) EXCEPT !.topics2 = <<FALSE, FALSE>>]
    IN  InitWith([s EXCEPT !.nirRender = Render(s), !.gateDeps = GateDeps(s),
                           !.fetchDeps = FetchDeps(s)])

\* The card of the second skill on the selection screen.
SelectSecondSkill ==
    /\ Screen(St) = "selection"
    /\ ProgressDo(handleSelectSkill(St, Render(St), 2), "user")

SkillsNext ==
    \/ ProgressSelectSkill \/ SelectSecondSkill \/ ProgressStartLearning
    \/ ProgressNextLesson \/ ProgressLessonResolved \/ ProgressNextStep
    \/ ProgressBadgeResolved \/ ProgressReset

SpecSkills == SkillsInit /\ [][SkillsNext]_vars


\* ------------------------------------------- actions: synthesis errors
\* utterance.onerror of the unit the engine is speaking: the handler logs.
onerror(s) == [s EXCEPT !.failed = @ \cup {Head(s.engineQueue)}]

SynthesisError ==
    /\ engineQueue # <<>>
    /\ Head(engineQueue) \notin failed
    /\ Do(onerror(St), "error", MaxCalls)

\* The engine gives up a unit that failed without firing its end event.
EngineSkipsFailed ==
    /\ engineQueue # <<>>
    /\ Head(engineQueue) \in failed
    /\ Do([St EXCEPT !.engineQueue = Tail(@)], "skipped", MaxCalls)

SynthesisErrorNext ==
    \/ Speak \/ Cancel
    \/ SpeechUnitEnd \/ SpeechStaleEnd
    \/ SynthesisError \/ EngineSkipsFailed

SpecSynthesisError == SpeechInit /\ [][SynthesisErrorNext]_vars

\* ------------------------------------------- speech: text rewriting
DigitChars == {"0", "1", "2", "3", "4", "5", "6", "7", "8", "9"}

RECURSIVE DigitRun(_, _), Spaced(_), SpellDecimals(_, _), ReplaceUse(_, _),
          Concat(_)

\* The length of the longest run of digits of text that starts at i: \d+
DigitRun(text, i) ==
    IF i <= Len(text) /\ text[i] \in DigitChars THEN 1 + DigitRun(text, i + 1)
    ELSE 0

\* fractionalPart.split('').join(' ')
Spaced(digits) ==
    IF Len(digits) <= 1 THEN digits
    ELSE <<Head(digits), " ">> \o Spaced(Tail(digits))

\* text.replace(/(\d+)\.(\d+)/g, ...) from position i on.
SpellDecimals(text, i) ==
    IF i > Len(text) THEN <<>>
    ELSE LET n == DigitRun(text, i)
             m == IF n > 0 /\ i + n <= Len(text) /\ text[i + n] = "."
                  THEN DigitRun(text, i + n + 1) ELSE 0
         IN  IF m > 0
             THEN SubSeq(text, i, i + n - 1)
                    \o <<" ", "p", "o", "i", "n", "t", " ">>
                    \o Spaced(SubSeq(text, i + n + 1, i + n + m))
                    \o SpellDecimals(text, i + n + m + 1)
             ELSE <<text[i]>> \o SpellDecimals(text, i + 1)

\* The i flag of /use/gi on the letters of the pattern.
FoldCase(ch) ==
    CASE ch = "U" -> "u" [] ch = "S" -> "s" [] ch = "E" -> "e" [] OTHER -> ch

\* /use/gi matches at position i of text.
MatchesUse(text, i) ==
    /\ i + 2 <= Len(text)
    /\ [k \in 1..3 |-> FoldCase(text[i + k - 1])] = <<"u", "s", "e">>

\* text.replace(/use/gi, 'yuuzh') from position i on.
ReplaceUse(text, i) ==
    IF i > Len(text) THEN <<>>
    ELSE IF MatchesUse(text, i)
         THEN <<"y", "u", "u", "z", "h">> \o ReplaceUse(text, i + 3)
         ELSE <<text[i]>> \o ReplaceUse(text, i + 1)

preprocessTextForSpeech(text) == ReplaceUse(SpellDecimals(text, 1), 1)

\* segments.map(s => s.text).join('')
Concat(texts) ==
    IF texts = <<>> THEN <<>> ELSE Head(texts) \o Concat(Tail(texts))

\* speak(segments, onEnd) on texts given letter by letter.
speakText(s, muted, segs, cb, label) ==
    LET c == Len(s.calls) + 1
        kept == SelectSeq(segs, LAMBDA t : Trim(t) # <<>>)
        s0 == [s EXCEPT !.calls = Append(@, [label |-> label, n |-> Len(kept),
                                             queued |-> ~muted /\ kept # <<>>,
                                             hasCb |-> cb # CbNone,
                                             whileMuted |-> s.isMuted,
                                             texts |-> kept])]
    IN  IF muted THEN Invoke(s0, c, cb)
        ELSE LET s1 == cancel(s0)
             IN  IF kept = <<>> THEN Invoke(s1, c, cb)
                 ELSE processQueue(
                        [s1 EXCEPT !.spokenText = Concat(kept),
                                   !.utteranceQueue =
                                       [i \in 1..Len(kept) |->
                                           [call |-> c, idx |-> i,
                                            text |-> preprocessTextForSpeech(kept[i])]],
                                   !.onEndCallback = [call |-> c, cb |-> cb],
                                   !.isSpeaking = TRUE,
                                   !.mouthShape = "A"])

MaxText == 1

TextChars == {"2", ".", "e"}

Phrases ==
    {<<"2", ".", "5", " ", "u", "s", "e", " ", "i", "t">>,
     <<"u", "s", "e", "r">>, <<"U", "s", "e">>, <<" ", "u", "s", "e", ".">>,
     <<"1", "2", ".", "3", "4">>, <<"2", ".", "5", ".", "3">>, <<" ">>}

\* Every text of up to MaxText characters, and the phrases.
SpeechTexts == UNION {[1..n -> TextChars] : n \in 0..MaxText} \cup Phrases

\* A text on its own, or two segments.
TextInputs ==
    {<<t>> : t \in SpeechTexts}
        \cup {<<<<"2", ".", "5", " ", "u", "s", "e", " ", "i", "t">>, <<"u", "s", "e", "r">>>>,
              <<<<" ">>, <<"U", "s", "e">>>>,
              <<<<"1", "2", ".", "3", "4">>, <<" ", "u", "s", "e", ".">>>>}

SpeakText ==
    /\ TRUE
    /\ \E segs \in TextInputs :
        Do(speakText(St, isMuted, segs, CbMark, "caller"), "speak", MaxCalls)

PronounceNext ==
    \/ SpeakText \/ SpeechToggleMute
    \/ SpeechUnitEnd \/ SpeechStaleEnd

SpecPronounce == SpeechInit /\ [][PronounceNext]_vars

\* ----------------------------------------------------- App: doubt solver
\* handleSolveDoubt of render r, up to its await.
handleSolveDoubt(s, r) ==
    [s EXCEPT !.isLoading = TRUE,
              !.error = FALSE,
              !.tutorState = "LOADING_LESSON",
              !.conversationHistory = <<>>,
              !.solution = FALSE,
              !.pending = Append(@, [kind |-> "solution", r |-> r])]

\* handleSolveDoubt after generateProblemSolution returned: the three
\* utterances are chained through the completion callbacks of the speak of r.
solveDoubtResolved(s, r) ==
    LET s1 == [s EXCEPT !.solution = TRUE,
                        !.whiteboardDisplayCode = "solution code",
                        !.userCode = "solution code",
                        !.conversationHistory = <<AiMsg("problem"), AiMsg("solution")>>]
        s2 == speak(s1, r.isMuted, <<"problem">>,
                    CbSpeak(r.isMuted, <<"solution">>,
                            CbSpeak(r.isMuted, <<"closing">>, CbNone)),
                    "doubt")
    IN  [s2 EXCEPT !.tutorState = "AWAITING_TASK", !.isLoading = FALSE]

\* The catch block of handleSolveDoubt.
solveDoubtRejected(s) ==
    [s EXCEPT !.error = TRUE,
              !.conversationHistory = <<AiMsg("error")>>,
              !.tutorState = "ERROR",
              !.isLoading = FALSE]

\* The selection screen: onSetMode('DOUBT_SOLVER').
SetDoubtMode ==
    /\ Screen(St) = "selection"
    /\ Do([St EXCEPT !.appMode = "DOUBT_SOLVER"], "user", MaxAppCalls)

\* The input panel shown while there is no solution.
SolveDoubt ==
    /\ Screen(St) = "main"
    /\ appMode = "DOUBT_SOLVER"
    /\ ~solution
    /\ ~isLoading
    /\ Do(handleSolveDoubt(St, Render(St)), "solve", MaxAppCalls)

SolutionResolved ==
    \E i \in DOMAIN pending :
        /\ pending[i].kind = "solution"
        /\ Do(solveDoubtResolved([St EXCEPT !.pending = RemoveAt(@, i)], pending[i].r),
              "reply", MaxAppCalls)

SolutionRejected ==
    \E i \in DOMAIN pending :
        /\ pending[i].kind = "solution"
        /\ Do(solveDoubtRejected([St EXCEPT !.pending = RemoveAt(@, i)]),
              "reply", MaxAppCalls)

\* The reset button of the doubt header.
DoubtReset ==
    /\ Screen(St) = "main"
    /\ appMode = "DOUBT_SOLVER"
    /\ Do(handleReset(St), "reset", MaxAppCalls)

DoubtNext ==
    \/ SetDoubtMode \/ SolveDoubt \/ SolutionResolved \/ SolutionRejected
    \/ DoubtReset \/ ToggleMute \/ UnitEnd \/ StaleEnd

SpecDoubt == TutorInit /\ [][DoubtNext]_vars
\* ------------------------------------------------------------------ claims
\* The units of call c in the order the engine received them.
SubmittedOf(c) == SelectSeq(submitted, LAMBDA u : u.call = c)

TimesFired(c) == Cardinality({i \in DOMAIN fired : fired[i] = c})

LastUnitEnded(c) == \E u \in ended : u.call = c /\ u.idx = calls[c].n

\* C1: every speak() call that queued units with a callback and was not
\* cancelled or superseded has its units submitted in the supplied order and
\* its callback fired exactly once, after the end signal of its last unit:
\* never more than once, never before that end signal, and fired once the
\* last unit has ended.
C1_OrderAndSingleCallback ==
    \A c \in DOMAIN calls :
        (calls[c].queued /\ calls[c].hasCb /\ c \notin cancelled) =>
            /\ \A i \in DOMAIN SubmittedOf(c) : SubmittedOf(c)[i].idx = i
            /\ TimesFired(c) <= 1
            /\ TimesFired(c) = 1 => LastUnitEnded(c)
            /\ LastUnitEnded(c) => TimesFired(c) = 1

\* C2: at most one synthesis unit is in flight in the voice engine.
C2_SingleFlight == Len(engineQueue) <= 1

\* C3: cancel() leaves isSpeaking false, mouthShape "X" and the queue empty,
\* a second cancel() changes nothing, and a callback that was pending when
\* cancel() ran is never invoked, neither by cancel() nor by a later event.
C3_CancelSafe ==
    /\ \A c \in cancelled : c \notin Range(fired)
    /\ lastOp = "cancel" =>
          /\ ~isSpeaking
          /\ mouthShape = "X"
          /\ utteranceQueue = <<>>
          /\ onEndCallback = NoCallback
          /\ cancel(St) = St

\* A callback was pending with a unit in flight when cancel() ran, and the
\* interrupted unit's end event has been delivered since.
C3_Witness ==
    /\ Len(calls) = 1
    /\ calls[1].hasCb
    /\ 1 \in cancelled
    /\ endOnCancel
    /\ staleEnds = 0
    /\ lastOp = "event"

InFlight == {calls[u.call].label : u \in Range(engineQueue)}

\* C5: the recognizer is never listening while a synthesis unit is in flight
\* in the voice engine.
C5_NoListeningWhileSpeaking == engineQueue # <<>> => ~isListening

\* C6: processing an EXPLANATION step sets tutorState to EXPLAINING at once,
\* and tutorState stays EXPLAINING, never AWAITING_CONTINUE, while a unit of
\* the explanation is still in flight.
C6_ContinueAfterExplanation ==
    "explanation" \in InFlight => tutorState = "EXPLAINING"

\* C7: after the correct choice, tutorState is not AWAITING_CONTINUE while
\* the affirmation is still being spoken; after any other choice tutorState
\* is INCORRECT at once; on a step that is not MULTIPLE_CHOICE the call
\* changes nothing.
C7_AnswerMcq ==
    /\ "affirmation" \in InFlight => tutorState # "AWAITING_CONTINUE"
    /\ (calls # <<>> /\ calls[Len(calls)].label = "rejection")
          => tutorState = "INCORRECT"
    /\ \A i \in 0..1 :
          CurrentStep(St).type # "MULTIPLE_CHOICE"
              => handleAnswerMcq(St, Render(St), i) = St

\* C8: when the provider call of a chat exchange fails, tutorState is the
\* state that was active when handleSendChatMessage was called, chatError is
\* set, and lastFailedMessage holds the failed message and its attachment.
C8_FailureRestoresState ==
    lastOp = "chatRejected" =>
        /\ tutorState = exchange.from
        /\ chatError
        /\ lastFailedMessage = [message |-> exchange.message,
                                attachment |-> exchange.attachment]

\* The user turns after the first n turns that carry the text of the current
\* exchange.
TurnsOfExchange(n) ==
    {i \in DOMAIN conversationHistory :
        /\ i > n
        /\ conversationHistory[i].sender = "user"
        /\ conversationHistory[i].text = exchange.message}

\* C9: after a successful retry of a failed chat message the conversation
\* history is as long as it was before the failed user turn, plus 2, and the
\* failed user message is in it exactly once.
C9_RetryHistory ==
    (lastOp = "chatResolved" /\ exchange.base >= 0) =>
        /\ Len(conversationHistory) = exchange.base + 2
        /\ Cardinality(TurnsOfExchange(exchange.base)) = 1

\* The closing statement of the interview has been spoken to its end (at
\* once when muted) and nothing but speech events has happened since.
ClosingCompleted ==
    /\ calls # <<>>
    /\ calls[Len(calls)].label = "closing"
    /\ calls[Len(calls)].queued => LastUnitEnded(Len(calls))
    /\ lastOp \in {"event", "chatResolved"}

\* C10: once the closing statement that follows the final interview round
\* has completed, muted or not, the session is fully reset: no skill, topic,
\* lesson or interview session, an empty conversation, appMode SELECTION and
\* tutorState IDLE.
C10_ClosingResetsSession ==
    ClosingCompleted =>
        /\ currentSkillId = 0
        /\ currentTopicId = 0
        /\ lesson = NoLesson
        /\ interviewSession = NoSession
        /\ conversationHistory = <<>>
        /\ appMode = "SELECTION"
        /\ tutorState = "IDLE"


\* C11: in an interview currentRoundIndex never decreases and moves by one
\* round at a time, and round i is completed exactly when currentRoundIndex
\* has advanced past it, whatever the order of replies that signal a
\* finished round, speech completions and advance timers.
C11_RoundProgress ==
    [][/\ interviewSession' # NoSession =>
             \A i \in DOMAIN interviewSession'.rounds :
                 interviewSession'.rounds[i].completed
                     <=> i - 1 < interviewSession'.currentRoundIndex
       /\ (interviewSession # NoSession /\ interviewSession' # NoSession) =>
             interviewSession'.currentRoundIndex - interviewSession.currentRoundIndex
                 \in {0, 1}]_vars

\* The message as the claim cleans it: lowercased, '.', ',' and '?' removed.
Cleaned(message) == StripPunctuation(ToLower(message))

\* The first choice (0-based, -1 if none) whose lowercased text contains needle.
FirstContaining(choices, needle) ==
    LET hits == {i \in DOMAIN choices : Includes(ToLower(choices[i]), needle)}
    IN  IF hits = {} THEN -1
        ELSE (CHOOSE i \in hits : \A j \in hits : i <= j) - 1

\* The state accepts an answer to a multiple-choice question.
AwaitingChoice ==
    /\ appMode = "TUTOR"
    /\ tutorState = "AWAITING_CHOICE"
    /\ CurrentStep(St).type = "MULTIPLE_CHOICE"

\* C12 as stated: in TUTOR mode with tutorState AWAITING_CHOICE on a
\* MULTIPLE_CHOICE step, a non-system message that, lowercased and without
\* '.', ',' and '?', is contained in some lowercased choice is handled
\* exactly like a click on the first such choice, and no provider call is
\* started.
C12_TypedAnswerAsStated ==
    AwaitingChoice =>
        \A message \in AnswerTexts :
            LET first == FirstContaining(CurrentStep(St).choices, Cleaned(message))
                typed == handleSendChatMessage(St, Render(St), nirRender, message,
                                               FALSE, FALSE)
            IN  first > -1 =>
                    /\ typed = handleAnswerMcq(St, Render(St), first)
                    /\ typed.pending = pending

\* C12, amended: the same for a message that is not blank and whose cleaned
\* text is also trimmed of surrounding white space before it is looked up in
\* the choices.
C12_TypedAnswerIsClick ==
    AwaitingChoice =>
        \A message \in AnswerTexts :
            LET first == FirstContaining(CurrentStep(St).choices,
                                         Trim(Cleaned(message)))
                typed == handleSendChatMessage(St, Render(St), nirRender, message,
                                               FALSE, FALSE)
            IN  (Trim(message) # <<>> /\ first > -1) =>
                    /\ typed = handleAnswerMcq(St, Render(St), first)
                    /\ typed.pending = pending

\* A text has been typed on the question of the example and was taken as the
\* answer "B dog", the correct one: its affirmation is the last speak() call
\* and no provider call is pending.
C12_Witness ==
    /\ lastOp = "typed"
    /\ conversationHistory # <<>>
    /\ conversationHistory[Len(conversationHistory)]
          = UserMsg(Selected(<<"B", " ", "d", "o", "g">>), FALSE)
    /\ calls[Len(calls)].label = "affirmation"
    /\ pending = <<>>

\* C13: a chat message that goes to the provider sets tutorState to
\* CHATTING; when the provider answers, exactly one AI turn is appended and
\* tutorState becomes CLARIFYING_DOUBT in TUTOR mode and AWAITING_TASK in
\* the other modes; but when an interview reply signals a finished round the
\* chat path sets no state, and the round advance (the reply's completion
\* callback) runs only after the reply has been spoken to its end.
C13_ChatExchange ==
    [][/\ (Len(pending') > Len(pending) /\ pending'[Len(pending')].kind = "chat")
             => tutorState' = "CHATTING"
       /\ lastOp' = "chatResolved" =>
             LET c == Len(calls) + 1
             IN  /\ calls'[c].label = "reply"
                 /\ ~calls'[c].hasCb =>
                       /\ conversationHistory' = Append(conversationHistory, AiMsg("reply"))
                       /\ tutorState' = IF appMode = "TUTOR" THEN "CLARIFYING_DOUBT"
                                        ELSE "AWAITING_TASK"
                 /\ (calls'[c].hasCb /\ calls'[c].queued) =>
                       /\ conversationHistory' = Append(conversationHistory, AiMsg("reply"))
                       /\ tutorState' = tutorState
       /\ \A c \in Range(fired') :
             (calls'[c].label = "reply" /\ calls'[c].queued) => LastUnitEnded(c)'
      ]_vars

\* C14: a code submission, from the submit button or from the recognizer's
\* submit command, has an effect only when the active lesson step is a
\* CODE_TASK (TUTOR mode) or the active interview round is a coding task
\* (interview mode); in every other state in which one of the two can
\* trigger it, handleSubmitCode changes nothing: no state, no evaluation,
\* no chat message.
C14_SubmitOnlyOnCodeTask ==
    ((isListening \/ CanSubmit(St)) /\ ~isCodeTask(St))
        => handleSubmitCode(St, Render(St), nirRender) = St

\* C15: after a submission has been evaluated as correct, tutorState is not
\* AWAITING_CONTINUE while a unit of the feedback is still in flight: it
\* becomes AWAITING_CONTINUE only when the feedback has been spoken.
C15_ContinueAfterFeedback ==
    "accepted" \in InFlight => tutorState # "AWAITING_CONTINUE"

RECURSIVE Refusals(_, _)

\* The incorrect verdicts among the first n turns of history h that came
\* after the last task message and the last correct verdict: the
\* consecutive incorrect verdicts on the step the history ends in.
Refusals(h, n) ==
    IF n = 0 THEN 0
    ELSE IF h[n].sender = "ai" /\ h[n].text \in {"well done", "m", "n"} THEN 0
    ELSE (IF h[n] = AiMsg("not yet") THEN 1 ELSE 0) + Refusals(h, n - 1)

\* C16: a correct verdict sets incorrectAttempts to 0 and currentHint to
\* null; an incorrect verdict adds exactly 1 to incorrectAttempts, stores the
\* returned hint and sets tutorState to INCORRECT at once; so after the n-th
\* consecutive incorrect verdict on a step incorrectAttempts is n, and
\* currentHint is set only when incorrectAttempts >= 1.
C16_AttemptCounter ==
    [][/\ lastOp' = "accepted" => (incorrectAttempts' = 0 /\ currentHint' = NoHint)
       /\ lastOp' = "refused" =>
             /\ incorrectAttempts' = incorrectAttempts + 1
             /\ currentHint' \in Hints
             /\ tutorState' = "INCORRECT"
             /\ incorrectAttempts' = Refusals(conversationHistory',
                                              Len(conversationHistory'))
       /\ currentHint' # NoHint => incorrectAttempts' >= 1
      ]_vars

\* C17: handleRequestHint discloses the conceptual tier when
\* incorrectAttempts = 1 and the direct tier when incorrectAttempts >= 2,
\* nothing when no hint is stored, and never changes tutorState or the
\* counter; handleShowSolution writes the solution text into userCode and
\* the whiteboard, and tutorState becomes AWAITING_CONTINUE only when its
\* speech has been spoken to the end.
C17_HintTiers ==
    /\ LET t == handleRequestHint(St, Render(St))
       IN  /\ t.tutorState = tutorState
           /\ t.incorrectAttempts = incorrectAttempts
           /\ currentHint = NoHint => t = St
           /\ (currentHint # NoHint /\ incorrectAttempts = 1) =>
                 t.conversationHistory
                     = Append(conversationHistory, AiMsg(currentHint.conceptual))
           /\ (currentHint # NoHint /\ incorrectAttempts >= 2) =>
                 t.conversationHistory
                     = Append(conversationHistory, AiMsg(currentHint.direct))
    /\ LET t == handleShowSolution(St, Render(St))
       IN  (currentHint # NoHint /\ currentHint.solution # "") =>
               /\ t.userCode = currentHint.solution
               /\ t.whiteboardDisplayCode = currentHint.solution
    /\ "solution" \in InFlight => tutorState # "AWAITING_CONTINUE"

\* The inputs of the speak() calls the claims try in every state.
ProbeSegs == {<<>>, <<" ">>, <<"", " ">>, <<"a">>, <<" ", "a">>}

\* C18: a speak() call made while the engine is muted, or with no segment of
\* non-blank text, has its callback invoked before it returns, submits no
\* unit, leaves the queue empty and does not set isSpeaking to true.
C18_SilentSpeak ==
    /\ \A c \in DOMAIN calls :
          (calls[c].whileMuted \/ calls[c].n = 0) =>
              /\ ~calls[c].queued
              /\ \A u \in Range(submitted) : u.call # c
              /\ calls[c].hasCb => c \in Range(fired)
    /\ \A segs \in ProbeSegs, cb \in {CbNone, CbMark} :
          LET t == speak(St, isMuted, segs, cb, "caller")
          IN  (isMuted \/ SelectNonBlank(segs) = <<>>) =>
                  /\ t.submitted = submitted
                  /\ t.utteranceQueue = <<>>
                  /\ ~t.isSpeaking
                  /\ cb # CbNone => t.fired = Append(fired, Len(calls) + 1)

\* C19: toggleMute() flips isMuted; a toggle to muted performs cancel() (queue
\* emptied, pending callback forgotten, isSpeaking false, mouthShape "X"), a
\* toggle to unmuted changes nothing else of the engine, and no step that
\* ends muted submits a unit to the voice engine.
C19_MuteSilences ==
    [][ /\ (~isMuted /\ isMuted') =>
              /\ utteranceQueue' = <<>>
              /\ onEndCallback' = NoCallback
              /\ ~isSpeaking'
              /\ mouthShape' = "X"
        /\ (isMuted /\ ~isMuted') =>
              UNCHANGED <<isSpeaking, mouthShape, utteranceQueue,
                          onEndCallback, engineQueue, submitted>>
        /\ isMuted' => submitted' = submitted ]_vars

\* The lesson fetches in flight.
LessonFetches(p) == SelectSeq(p, LAMBDA x : x.kind = "lesson")

\* The state processStep() gives the tutor for a step before any speech ends.
StateOfStep(step) ==
    CASE step.type = "EXPLANATION" -> "EXPLAINING"
      [] step.type = "MULTIPLE_CHOICE" -> "AWAITING_CHOICE"
      [] step.type = "CODE_TASK" -> "AWAITING_TASK"

\* What a settled lesson fetch leaves, the tutor state apart.
LessonInstalled ==
    /\ lesson' # NoLesson
    /\ Len(lesson'.steps) > 0
    /\ currentStepIndex' = 0
    /\ incorrectAttempts' = 0
    /\ currentHint' = NoHint
    /\ conversationHistory' = <<AiMsg(lesson'.steps[1].text)>>

\* C20 as stated: a lesson fetch that settles leaves isLoading false and either
\* ERROR with the error set, or the lesson installed at step 0 with no
\* attempts, no hint, the first step's message as the whole history, and the
\* tutor in the state of the first step.
C20_FetchOutcomeAsStated ==
    [][ Len(LessonFetches(pending')) < Len(LessonFetches(pending)) =>
          /\ ~isLoading'
          /\ \/ tutorState' = "ERROR" /\ error'
             \/ /\ LessonInstalled
                /\ tutorState' = StateOfStep(lesson'.steps[1]) ]_vars

\* C20: the same, except that an explanation whose speech speak() skipped
\* (muted) has had its callback run already, so the tutor is in
\* AWAITING_CONTINUE and not in EXPLAINING.
C20_FetchOutcome ==
    [][ Len(LessonFetches(pending')) < Len(LessonFetches(pending)) =>
          /\ ~isLoading'
          /\ \/ tutorState' = "ERROR" /\ error'
             \/ /\ LessonInstalled
                /\ Len(calls') = Len(calls) + 1
                /\ tutorState' =
                      IF lesson'.steps[1].type = "EXPLANATION"
                         /\ ~calls'[Len(calls')].queued
                      THEN "AWAITING_CONTINUE"
                      ELSE StateOfStep(lesson'.steps[1]) ]_vars

\* A muted fetch has installed a lesson that opens with an explanation.
C20_Witness ==
    /\ lastOp = "reply"
    /\ lesson # NoLesson
    /\ currentStepIndex = 0
    /\ Len(calls) = 1
    /\ calls[1].label = "explanation"
    /\ ~calls[1].queued
    /\ tutorState = "AWAITING_CONTINUE"
    /\ ~isLoading

\* C21: when a second topic was selected while a lesson fetch was in flight,
\* then once no fetch is in flight the installed lesson, the history and the
\* tutor state are those of the selected topic, and isLoading is true as long
\* as a fetch is in flight.
C21_LatestFetchWins ==
    /\ LessonFetches(pending) # <<>> => isLoading
    /\ (/\ LessonFetches(pending) = <<>>
        /\ lastOp = "reply"
        /\ currentTopicId # 0
        /\ lesson # NoLesson
        /\ tutorState # "ERROR") =>
           /\ lesson = TopicLesson(currentTopicId)
           /\ conversationHistory # <<>>
           /\ conversationHistory[1] = AiMsg(lesson.steps[1].text)
           /\ tutorState \in {StateOfStep(lesson.steps[1]), "AWAITING_CONTINUE"}

\* C22: a step that starts a lesson fetch (topic selected, Start Learning,
\* next lesson) or resets the session leaves no unit in the speech queue or
\* with the voice engine and no completion callback registered, so that
\* nothing queued before it is spoken and no earlier callback fires after it.
C22_CancelFirst ==
    [][ (/\ lastOp' \in {"selectTopic", "startLearning", "nextLesson", "reset"}
         /\ \/ lastOp' = "reset"
            \/ Len(LessonFetches(pending')) > Len(LessonFetches(pending))) =>
           /\ utteranceQueue' = <<>>
           /\ engineQueue' = <<>>
           /\ onEndCallback' = NoCallback ]_vars

\* The steps of a sequence that are not questions.
OtherSteps(steps) == SelectSeq(steps, LAMBDA step : step.type # "MULTIPLE_CHOICE")

\* C23: every MULTIPLE_CHOICE step of an installed lesson has
\* 0 <= correctChoiceIndex < |choices|, and generateLessonContent keeps every
\* other step of the provider's answer in its original order.
C23_IndexInRange ==
    /\ lesson # NoLesson =>
          \A i \in DOMAIN lesson.steps :
              lesson.steps[i].type = "MULTIPLE_CHOICE" =>
                  /\ 0 <= lesson.steps[i].correctChoiceIndex
                  /\ lesson.steps[i].correctChoiceIndex < Len(lesson.steps[i].choices)
    /\ \A raw \in RawLessons :
          generateLessonContent(raw) # Thrown =>
              OtherSteps(generateLessonContent(raw).steps) = OtherSteps(raw.steps)

\* C24: when validation removes every step of the provider's lesson, or the
\* provider sends no steps, the fetch fails: tutorState is ERROR with the
\* error set, no lesson without steps is installed, and no fetch ends in
\* CORRECT.
C24_EmptyLessonFails ==
    [][ /\ \A raw \in RawLessons :
              validatedSteps(raw.steps) = <<>> => generateLessonContent(raw) = Thrown
        /\ Len(LessonFetches(pending')) < Len(LessonFetches(pending)) =>
              /\ tutorState' # "CORRECT"
              /\ lesson' # NoLesson => Len(lesson'.steps) > 0
              /\ lastOp' \in {"invalid", "thrown"} =>
                    /\ tutorState' = "ERROR"
                    /\ error'
                    /\ ~isLoading'
                    /\ lesson' = lesson ]_vars

\* A lesson whose every step was removed by validation has failed to load.
C24_Witness ==
    /\ lastOp = "invalid"
    /\ tutorState = "ERROR"
    /\ error
    /\ lesson = NoLesson

\* The date the lesson completion of this instant writes into the log.
Today == UTCDate(now)

\* The entries of the activity log for date d.
EntriesOf(log, d) == {i \in DOMAIN log : log[i].date = d}

\* C25: a lesson completion that writes the user's progress at once adds 1 to
\* currentStreak if lastActivityDate is yesterday, leaves it if it is today
\* and makes it 1 otherwise; today's points go to today's log entry if there
\* is one and else to one new entry, the log never holds two entries for one
\* date, and lastActivityDate becomes today.
C25_StreakUpdate ==
    [][ (/\ lastOp' = "completed"
         /\ tutorState' \in {"CORRECT", "COURSE_COMPLETED"}) =>
           /\ lastActivityDate = Today - 1 => currentStreak' = currentStreak + 1
           /\ lastActivityDate = Today => currentStreak' = currentStreak
           /\ lastActivityDate \notin {Today, Today - 1} => currentStreak' = 1
           /\ IF EntriesOf(activityLog, Today) # {}
              THEN \E i \in EntriesOf(activityLog, Today) :
                      activityLog' = [activityLog EXCEPT ![i].points = @ + pointsEarned]
              ELSE activityLog' = Append(activityLog,
                                         [date |-> Today, points |-> pointsEarned])
           /\ \A i, j \in DOMAIN activityLog' :
                 activityLog'[i].date = activityLog'[j].date => i = j
           /\ lastActivityDate' = Today ]_vars

\* C26: a lesson completion marks the current topic completed and ends in
\* COURSE_COMPLETED exactly when every topic of the skill is then completed,
\* in CORRECT otherwise; and the user never holds more than one badge for the
\* skill.
C26_CompletionAndBadge ==
    [][ /\ (/\ lastOp' = "completed"
            /\ tutorState' \in {"CORRECT", "COURSE_COMPLETED"}) =>
              /\ topics'[currentTopicId]
              /\ \A i \in DOMAIN topics : topics[i] => topics'[i]
              /\ tutorState' = IF \A i \in DOMAIN topics' : topics'[i]
                               THEN "COURSE_COMPLETED" ELSE "CORRECT"
        /\ lastOp' = "badge" =>
              /\ \A i \in DOMAIN topics' : topics'[i]
              /\ tutorState' = "COURSE_COMPLETED"
              /\ hasBadge'
        /\ badges' <= 1
        /\ hasBadge' <=> badges' = 1 ]_vars

\* A skill whose badge the user holds has been completed once more.
C26_Witness ==
    /\ lastOp = "completed"
    /\ tutorState = "COURSE_COMPLETED"
    /\ badges = 1
    /\ Len(calls) = 4
    /\ calls[4].label = "congrats"

\* Sequence a is the beginning of sequence b.
IsPrefix(a, b) == Len(a) <= Len(b) /\ SubSeq(b, 1, Len(a)) = a

\* The provider calls in flight that load a session.
Loads(p) == SelectSeq(p, LAMBDA x : x.kind \in {"lesson", "plan"})

\* C27: within a session (no load starts or settles, no reset, no change of
\* mode) every step leaves the conversation history as it was or appends to
\* its tail; only a retry may first cut the tail back to before the last
\* user message.
C27_AppendOnly ==
    [][ (/\ Len(Loads(pending')) = Len(Loads(pending))
         /\ appMode' = appMode
         /\ lastOp' # "reset") =>
           \/ IsPrefix(conversationHistory, conversationHistory')
           \/ /\ chatError
              /\ lastFailedMessage # NoMessage
              /\ LET n == LastUserIndex(conversationHistory, Len(conversationHistory))
                 IN  /\ n > 0
                     /\ IsPrefix(SubSeq(conversationHistory, 1, n - 1),
                                 conversationHistory') ]_vars

\* C28: when the advance timer moves the interview from round k to round
\* k+1, the "ready" system message goes to the provider with the advanced
\* session (currentRoundIndex = k+1, whose round also gives the voice of the
\* reply), and it is appended as a system turn to the history as it stood.
C28_ReadyMessage ==
    [][ (/\ lastOp' = "timer"
         /\ interviewSession # NoSession
         /\ interviewSession' # NoSession
         /\ interviewSession'.currentRoundIndex
               = interviewSession.currentRoundIndex + 1) =>
           /\ Len(pending') = Len(pending) + 1
           /\ pending'[Len(pending')].kind = "chat"
           /\ pending'[Len(pending')].r.interviewSession # NoSession
           /\ pending'[Len(pending')].r.interviewSession.currentRoundIndex
                 = interviewSession'.currentRoundIndex
           /\ conversationHistory'
                 = Append(conversationHistory,
                          UserMsg(<<"r", "e", "a", "d", "y">>, TRUE)) ]_vars

\* The units of call c handed to the voice engine after the step, in order.
SubmittedAfter(c) == SelectSeq(submitted', LAMBDA u : u.call = c)

\* The texts of the units of call c after the step, in order: those handed
\* to the voice engine, then those still waiting in the queue.
TextsAfter(c) ==
    LET waiting == SelectSeq(utteranceQueue', LAMBDA u : u.call = c)
        units == SubmittedAfter(c) \o waiting
    IN  [i \in DOMAIN units |-> units[i].text]

\* The step that is current after the step of the run.
StepAfter ==
    IF lesson' # NoLesson /\ currentStepIndex' < Len(lesson'.steps)
    THEN lesson'.steps[currentStepIndex' + 1] ELSE NoStep

\* C29: processing a MULTIPLE_CHOICE step sets tutorState to AWAITING_CHOICE
\* and processing a CODE_TASK step sets it to AWAITING_TASK in the same step,
\* whether or not anything is spoken; an end event that arrives while a unit
\* of that step's speech is in the voice engine, or that runs the completion
\* callback of that speech, leaves tutorState as it is; and
\* a CODE_TASK is spoken as two units, the Hindi intro then the mission of
\* the step, which reach the voice engine in that order.
C29_ImmediateWaitingState ==
    [][/\ \A c \in DOMAIN calls' \ DOMAIN calls :
             /\ calls'[c].label = "question" => tutorState' = "AWAITING_CHOICE"
             /\ calls'[c].label = "task" =>
                   /\ tutorState' = "AWAITING_TASK"
                   /\ calls'[c].n = 2
                   /\ calls'[c].queued =>
                         TextsAfter(c) = <<"Ab, aapki baari. ", StepAfter.text>>
       /\ (/\ lastOp' = "event"
           /\ \/ /\ engineQueue # <<>>
                 /\ calls[Head(engineQueue).call].label \in {"question", "task"}
              \/ \E i \in DOMAIN fired' \ DOMAIN fired :
                    calls[fired'[i]].label \in {"question", "task"})
             => tutorState' = tutorState
       /\ \A c \in DOMAIN calls' :
             calls'[c].label = "task" =>
                /\ Len(SubmittedAfter(c)) <= 2
                /\ \A i \in DOMAIN SubmittedAfter(c) :
                      /\ SubmittedAfter(c)[i].idx = i
                      /\ (SubmittedAfter(c)[i].text = "Ab, aapki baari. ")
                             <=> (i = 1)]_vars

\* Both units of a task were submitted and have ended, its completion
\* callback has run, and the waiting state that processStep set is in place.
C29_Witness ==
    \E c \in DOMAIN calls :
        /\ calls[c].label = "task"
        /\ c = Len(calls)
        /\ Len(SubmittedOf(c)) = 2
        /\ LastUnitEnded(c)
        /\ c \in Range(fired)
        /\ tutorState = "AWAITING_TASK"

\* The calls one of whose units raised a synthesis error.
FailedCalls == {u.call : u \in failed}

\* C30: a synthesis error changes neither the queue nor the pending
\* callback.  For a call with a failed unit that was not cancelled or
\* superseded: if the engine fired the end event of every failed unit, the
\* units are submitted in order and the callback fires once, after the last
\* unit has ended; if the engine gave a failed unit up without its end
\* event, no later unit of the call is submitted and its callback does not
\* fire.
C30_ErrorKeepsQueue ==
    [][/\ lastOp' = "error" =>
             /\ utteranceQueue' = utteranceQueue
             /\ onEndCallback' = onEndCallback
             /\ engineQueue' = engineQueue
       /\ \A c \in FailedCalls' \ cancelled' :
             LET sub == SelectSeq(submitted', LAMBDA u : u.call = c)
                 times == Cardinality({i \in DOMAIN fired' : fired'[i] = c})
                 last == \E u \in ended' : u.call = c /\ u.idx = calls'[c].n
                 stalled == {u \in failed' : /\ u.call = c
                                             /\ u \notin ended'
                                             /\ u \notin Range(engineQueue')}
             IN  /\ \A i \in DOMAIN sub : sub[i].idx = i
                 /\ times <= 1
                 /\ (stalled = {} /\ calls'[c].hasCb) =>
                       /\ times = 1 => last
                       /\ last => times = 1
                 /\ \A u \in stalled :
                       /\ Len(sub) = u.idx
                       /\ times = 0]_vars

\* A character that is part of a word for \b.
WordChar(ch) == ch \notin {" ", ".", ",", "?"}

\* 'use' stands at position i of text as a whole word.
WholeWordUse(text, i) ==
    /\ MatchesUse(text, i)
    /\ i = 1 \/ ~WordChar(text[i - 1])
    /\ i + 3 > Len(text) \/ ~WordChar(text[i + 3])

RECURSIVE ReplaceWholeWordUse(_, _)

\* The text with the whole-word occurrences of 'use' replaced by 'yuuzh'.
ReplaceWholeWordUse(text, i) ==
    IF i > Len(text) THEN <<>>
    ELSE IF WholeWordUse(text, i)
         THEN <<"y", "u", "u", "z", "h">> \o ReplaceWholeWordUse(text, i + 3)
         ELSE <<text[i]>> \o ReplaceWholeWordUse(text, i + 1)

\* The queued speak() calls of the run.
QueuedCalls == {c \in DOMAIN calls : calls[c].queued}

\* C31: the text of every unit handed to the synthesizer is the segment's
\* original text with every <digits>.<digits> spelled as '<digits> point
\* <fraction digits separated by spaces>' and every whole-word 'use', and no
\* other, replaced by 'yuuzh'; the published spokenText is the concatenation
\* of the original segment texts of the latest queued call.
C31_SynthesizedText ==
    /\ \A u \in Range(submitted) :
          u.text = ReplaceWholeWordUse(SpellDecimals(calls[u.call].texts[u.idx], 1), 1)
    /\ QueuedCalls # {} =>
          LET c == CHOOSE d \in QueuedCalls : \A e \in QueuedCalls : e <= d
          IN  spokenText = Concat(calls[c].texts)

\* C32: the orchestrator is never left in EXPLAINING with nothing being
\* spoken and no completion callback pending, a state that no end event of
\* the voice engine can lead out of: while tutorState is EXPLAINING, also
\* after mute was toggled on during the explanation, a unit is in the voice
\* engine or an end event is due, and a completion callback is registered.
C32_ExplanationEnds ==
    tutorState = "EXPLAINING" =>
        /\ engineQueue # <<>> \/ staleEnds > 0
        /\ onEndCallback # NoCallback

\* The chat provider calls in flight.
ChatsInFlight == {i \in DOMAIN pending : pending[i].kind = "chat"}

\* C33: while a chat provider call is in flight and tutorState is CHATTING,
\* no end event of the voice engine, and so no completion callback of speech
\* started before the message was sent, changes tutorState.
C33_ChattingUntilReply ==
    [][(/\ tutorState = "CHATTING"
        /\ ChatsInFlight # {}
        /\ lastOp' = "event")
          => tutorState' = "CHATTING"]_vars

\* C34: the snapshot stateBeforeDoubt is never CHATTING or CLARIFYING_DOUBT,
\* and handleContinueLesson, after one or more doubt exchanges, never leaves
\* tutorState in CLARIFYING_DOUBT or CHATTING.
C34_ContinueLeavesDoubt ==
    [][/\ stateBeforeDoubt' \notin {"CHATTING", "CLARIFYING_DOUBT"}
       /\ \A c \in DOMAIN calls' \ DOMAIN calls :
             calls'[c].label = "continue" =>
                tutorState' \notin {"CHATTING", "CLARIFYING_DOUBT"}]_vars

\* The session state that handleReset leaves.
SessionCleared ==
    /\ appMode = "SELECTION"
    /\ tutorState = "IDLE"
    /\ lesson = NoLesson
    /\ interviewSession = NoSession
    /\ conversationHistory = <<>>

\* handleReset has run and the user has not acted since.
SinceReset ==
    \/ lastOp = "reset"
    \/ lastOp \in {"reply", "event"} /\ SessionCleared

\* C35: after handleReset, until the next user action, no provider call that
\* completes and no end event changes the cleared session (tutorState IDLE,
\* appMode SELECTION, no lesson, no interview session, empty history) or
\* hands a unit to the voice engine.
C35_ResetIsFinal ==
    [][(SinceReset /\ lastOp' \in {"reply", "event"})
          => (SessionCleared' /\ submitted' = submitted)]_vars

\* Unit i of the run has ended without its call being cancelled, and no unit
\* with the text `next` was handed to the voice engine after it.
NotFollowed(i, next) ==
    /\ submitted[i] \in ended
    /\ submitted[i].call \notin cancelled
    /\ ~\E j \in DOMAIN submitted : j > i /\ submitted[j].text = next

\* C36: after a successful doubt solution, spoken unmuted and uninterrupted,
\* the end of the problem explanation starts the solution explanation and
\* the end of the solution explanation starts the closing invitation: once
\* an utterance of the chain has ended, the next one has been handed to the
\* voice engine.
C36_ThreeUtterances ==
    \A i \in DOMAIN submitted :
        /\ submitted[i].text = "problem" => ~NotFollowed(i, "solution")
        /\ submitted[i].text = "solution" => ~NotFollowed(i, "closing")

\* C37: whenever handleNextStep moves to another step of the lesson, the
\* attempt counter is 0 and no hint is stored on arrival.
C37_FreshAttemptsOnArrival ==
    [][(lesson' = lesson /\ lesson # NoLesson /\ currentStepIndex' # currentStepIndex)
          => (incorrectAttempts' = 0 /\ currentHint' = NoHint)]_vars

\* The handler took the message as the answer of some choice.
TakenAsAnswer(typed) ==
    \E i \in DOMAIN CurrentStep(St).choices :
        typed = handleAnswerMcq(St, Render(St), i - 1)

\* C38: while AWAITING_CHOICE a message is taken as a multiple-choice answer
\* only if its cleaned text (lowercased, '.', ',' and '?' removed) is not
\* empty and is contained in some choice; a message whose cleaned text is
\* empty is not taken as an answer and goes to the chat path, which appends
\* it to the conversation as a user turn.
C38_EmptyTextIsNoAnswer ==
    AwaitingChoice =>
        \A message \in AnswerTexts :
            LET typed == handleSendChatMessage(St, Render(St), nirRender, message,
                                               FALSE, FALSE)
                cleaned == Cleaned(message)
            IN  /\ TakenAsAnswer(typed) =>
                      /\ cleaned # <<>>
                      /\ FirstContaining(CurrentStep(St).choices, cleaned) > -1
                /\ cleaned = <<>> =>
                      /\ ~TakenAsAnswer(typed)
                      /\ typed.conversationHistory
                            = Append(conversationHistory, UserMsg(message, FALSE))

\* The completed topics of a skill are the first ones of its list.
CompletedFirst(ts) == \A i \in DOMAIN ts : ts[i] => \A j \in 1..(i - 1) : ts[j]

\* No completed topic of the list becomes uncompleted in the step.
StaysCompleted(ts, next) ==
    /\ DOMAIN next = DOMAIN ts
    /\ \A i \in DOMAIN ts : ts[i] => next[i]

\* C39: in every reachable state the completed topics of each skill form a
\* prefix of its topic list, and no step undoes the completion of a topic.
C39_CompletedPrefix ==
    /\ [](CompletedFirst(topics) /\ CompletedFirst(topics2))
    /\ [][StaysCompleted(topics, topics') /\ StaysCompleted(topics2, topics2')]_vars
=============================================================================
